---- MODULE Spec2Model ----
(***************************************************************************)
(* A model of avwx-api's report fetch orchestration                        *)
(* (avwx_api/handle/base.py, avwx_api/cache.py, avwx_api/structs.py) and   *)
(* of its delayed usage counter (avwx_api/counter.py).                     *)
(*                                                                         *)
(* SpecFetch   : requests served by ReportHandler.fetch_report, one        *)
(*               action per stretch of code between two suspension points. *)
(* SpecCounter : DelayedCounter.add / update, the three queue workers and  *)
(*               the clean_queue shutdown procedure.                       *)
(* SpecHandle  : fetch_report of either handler class, with the awaits    *)
(*               that can raise or be cancelled.                          *)
(* SpecConfigs : SpecHandle with every ParseConfig value as the argument.  *)
(* SpecCache   : the Cache class, its key escaping and five-attempt loops. *)
(* SpecMeter   : SpecCounter with a Metering Store whose writes can fail.  *)
(* SpecCounterFair, SpecMeterFair : the same under fair scheduling.        *)
(* SpecManager : ManagerHandler.fetch_reports.                             *)
(* SpecMulti   : MultiReport.get, two gathered fetch_report calls sharing  *)
(*               one ParseConfig.                                          *)
(* SpecToken   : TokenCountCache.get / add / update (avwx_api/token.py).   *)
(***************************************************************************)
EXTENDS Integers, Sequences, FiniteSets, TLC

VARIABLES
    \* ---- fetch orchestration ----
    cache,      \* the report cache table: storage key -> record
    now,        \* wall clock, in minutes
    srcVer,     \* version of the report the upstream source currently publishes
    config,     \* the ParseConfig object of the running request (shared, mutable)
    stack,      \* fetch_report activations, outermost first
    result,     \* DataStatus returned by the last completed request
    hist,       \* what each activation of the last completed request did
    reqConfig,  \* the ParseConfig as the caller passed it
    prev,       \* summary of the request completed before the last one
    nreq,       \* requests issued so far
    handler,    \* the handler class whose fetch_report is called
    \* ---- delayed counter ----
    data_,      \* DelayedCounter._data: the (key, count) items in insertion order
    locked,     \* DelayedCounter.locked
    due,        \* time.time() > update_at
    queue,      \* the asyncio queue of (key, count) jobs
    workers,    \* per worker: where it stands and the job it holds
    persisted,  \* Metering Store: key -> total
    shutdown,   \* position of clean_queue
    added,      \* add calls completed, per key
    sinceFlush, \* add calls completed since the last gather_data, per key
    \* ---- document cache (Cache class) ----
    mongo_uri,  \* whether MONGO_URI is set
    stored,     \* the document of one (table, _id), as the store holds it
    op,         \* the Cache.get or Cache.update call in progress, or the last one
    clock,      \* datetime.utcnow() as the Cache class reads it, in minutes
    \* ---- report manager (ManagerHandler) ----
    mgr,        \* the fetch_reports call in progress, or the last one
    \* ---- multi-station request (MultiReport.get) ----
    calls,      \* the fetch_report coroutines gathered by one request, in order
    \* ---- token usage cache (TokenCountCache) ----
    tdata,      \* TokenCountCache._data: token -> missing, None or the item
    tdue,       \* time.time() > update_at
    tqueue,     \* the asyncio queue of (user, count) jobs
    tusage,     \* the usage count of the user, as the usage store holds it
    treqs,      \* per request: where its get / add stands and what it got
    tdb         \* the token table: whether it has the token, and its limit

fetchVars == <<cache, now, srcVer, config, stack, result, hist, reqConfig, prev, nreq, handler>>
counterVars == <<data_, locked, due, queue, workers, persisted, shutdown, added, sinceFlush>>
storeVars == <<mongo_uri, stored, op, clock>>
mgrVars == <<mgr>>
multiVars == <<calls>>
tokenVars == <<tdata, tdue, tqueue, tusage, treqs, tdb>>
extVars == <<mgrVars, multiVars, tokenVars>>
vars == <<fetchVars, counterVars, storeVars, extVars>>

----------------------------------------------------------------------------
(* Bounds of the model *)
MaxTime == 3
MaxVer == 1
MaxRequests == 2
MaxDepth == 3

(* Program constants *)
Retries == 3
MaxAge == 2
HTTP_OK == 200
NO_CONTENT == 204
BAD_REQUEST == 400
INTERNAL_SERVER_ERROR == 500
BAD_GATEWAY == 502
SERVICE_UNAVAILABLE == 503

----------------------------------------------------------------------------
(* Stations.  Both are ICAO stations: storage code and lookup code are the *)
(* ICAO code; each is the other's nearest station.                         *)
Stations == {"KJFK", "KLGA"}

storage_code(s) == s

lookup_code(s) == s

\* Every station of the model: the two above, a station found only in the
\* awos cache table and a station that does not publish reports
AllStations == Stations \cup {"KDMW", "K00A"}

\* app.cache_only as init_cache_only_map fills it
cache_only == {"KDMW"}

\* ReportHandler._cache_only_source
_cache_only_source(s) == storage_code(s) \in cache_only

\* Mutant: every station is taken to publish reports
sends_reports_all(s) == TRUE

\* station.sends_reports
sends_reports(s) == s \in {"KJFK", "KLGA", "KDMW"}

\* station.nearby(): the reporting stations around, nearest first
nearby(s) ==
    CASE s = "KJFK" -> <<"KLGA">>
      [] s = "KLGA" -> <<"KJFK">>
      [] s = "KDMW" -> <<"KJFK">>
      [] OTHER -> <<>>

\* The handler classes: ReportHandler as MetarHandler and TafHandler use it,
\* and PirepHandler, which overrides fetch_report
Handlers == {"report", "pirep"}

SourceName == "NOAA"

----------------------------------------------------------------------------
(* Dicts of the program as records with a fixed set of fields *)
NoErr == [id |-> "", arg |-> ""]

Err(id, arg) == [id |-> id, arg |-> arg]

NoWarn == [id |-> "", arg |-> ""]

\* The messages of base.py's ERRORS list, by what they say
ErrorTexts == <<"not_found_for", "could_not_parse", "not_a_valid_station", "no_reports_found",
                "unknown_fetch_error", "unable_to_fetch_from", "does_not_publish", "cache_out_of_date">>

\* ERRORS[i].format(...): arg is the station or the source formatted into the message
ERRORS(i, arg) == Err(ErrorTexts[i + 1], arg)

\* advisory: the report's raw text contains "ADVISORY"
None == [kind |-> "none", station |-> "", ver |-> 0, ts |-> -1, err |-> NoErr, raw |-> FALSE,
         advisory |-> FALSE]

Report(s, v) == [kind |-> "report", station |-> s, ver |-> v, ts |-> -1, err |-> NoErr, raw |-> FALSE,
                 advisory |-> FALSE]

ErrorData(e, withRaw) == [kind |-> "error", station |-> "", ver |-> 0, ts |-> -1, err |-> e, raw |-> withRaw,
                          advisory |-> FALSE]

\* info: resp["info"] is set
NoResp == [meta |-> FALSE, cacheTs |-> -1, warning |-> NoWarn, topWarning |-> NoWarn,
           error |-> NoErr, raw |-> FALSE, body |-> None, info |-> FALSE]

\* BaseHandler.make_meta: resp = {"meta": {...timestamp...}}
make_meta == [NoResp EXCEPT !.meta = TRUE]

\* ParseConfig.from_params: the two fallback flags come from the one onfail
\* parameter, station from "info" among the options
OnFail == {"error", "cache", "nearest"}

Options == {{}, {"info"}}

from_params(onfail, keys) ==
    [station |-> ("info" \in keys),
     cache_on_fail |-> (onfail = "cache"),
     nearest_on_fail |-> (onfail = "nearest")]

NoConfig == [station |-> FALSE, cache_on_fail |-> FALSE, nearest_on_fail |-> FALSE]

----------------------------------------------------------------------------
(* Cache store (avwx_api/cache.py) *)

\* Mutant: every record counts as expired
has_expired_always(utcnow, ts, minutes) == TRUE

has_expired_inclusive(utcnow, ts, minutes) == IF ts = -1 THEN TRUE ELSE utcnow >= ts + minutes

\* Cache.has_expired: no timestamp is expired; else older than the minutes given
\* (utcnow is what datetime.utcnow() returns at the call)
has_expired(utcnow, ts, minutes) == IF ts = -1 THEN TRUE ELSE utcnow > ts + minutes

\* Cache.get: the stored record or None; unforced, only a record that has not expired
CacheGet(utcnow, key, force) ==
    LET d == cache[key]
    IN  IF force \/ (d.kind = "report" /\ ~has_expired(utcnow, d.ts, MaxAge)) THEN d ELSE None

\* Mutant: the record is stored without its timestamp
StampNothing(utcnow, d) == d

\* Cache.update: stamps the record with the current time and upserts it
Stamp(utcnow, d) == [d EXCEPT !.ts = utcnow]

CacheUpdate(utcnow, key, d) == [cache EXCEPT ![key] = Stamp(utcnow, d)]

----------------------------------------------------------------------------
(* BaseHandler._call_update and ReportHandler._update_parser *)

SourceOutcomes == {"ok", "timeout", "source_error", "not_found", "connection_error",
                   "invalid_request", "unknown", "cancelled"}

ParseOutcomes == {"ok", "bad_station", "parse_error"}

\* Mutant: five attempts, as the docstring says
_call_update_five(attempt, outcome, err_station, err_source) ==
    CASE outcome = "ok" ->
            [next |-> "ok", data |-> None, code |-> HTTP_OK]
      [] outcome \in {"timeout", "source_error"} ->
            IF attempt + 1 < 5
            THEN [next |-> "retry", data |-> None, code |-> HTTP_OK]
            ELSE [next |-> "error", data |-> ErrorData(ERRORS(5, err_source), FALSE), code |-> BAD_GATEWAY]
      [] OTHER ->
            [next |-> "error", data |-> ErrorData(ERRORS(4, ""), FALSE), code |-> INTERNAL_SERVER_ERROR]

\* Mutant: the test of the operation's result is inverted
_call_update_inverted(attempt, outcome, err_station, err_source) ==
    CASE outcome = "not_found" ->
            [next |-> "ok", data |-> None, code |-> HTTP_OK]
      [] outcome \in {"timeout", "source_error"} ->
            IF attempt + 1 < Retries
            THEN [next |-> "retry", data |-> None, code |-> HTTP_OK]
            ELSE [next |-> "error", data |-> ErrorData(ERRORS(5, err_source), FALSE), code |-> BAD_GATEWAY]
      [] outcome = "ok" ->
            [next |-> "error", data |-> ErrorData(ERRORS(0, err_station), FALSE), code |-> BAD_REQUEST]
      [] OTHER ->
            [next |-> "error", data |-> ErrorData(ERRORS(4, ""), FALSE), code |-> INTERNAL_SERVER_ERROR]

\* Mutant: a connection error is suppressed and retried like a timeout
_call_update_suppress_connection(attempt, outcome, err_station, err_source) ==
    CASE outcome = "ok" ->
            [next |-> "ok", data |-> None, code |-> HTTP_OK]
      [] outcome \in {"timeout", "source_error", "connection_error"} ->
            IF attempt + 1 < Retries
            THEN [next |-> "retry", data |-> None, code |-> HTTP_OK]
            ELSE [next |-> "error", data |-> ErrorData(ERRORS(5, err_source), FALSE), code |-> BAD_GATEWAY]
      [] outcome = "not_found" ->
            [next |-> "error", data |-> ErrorData(ERRORS(0, err_station), FALSE), code |-> BAD_REQUEST]
      [] OTHER ->
            [next |-> "error", data |-> ErrorData(ERRORS(4, ""), FALSE), code |-> INTERNAL_SERVER_ERROR]

\* One pass of _call_update's for loop, the operation having ended with `outcome`
\* on attempt number `attempt` (from 0).  next: "retry" the loop goes on,
\* "ok" the call returns None, "error" it returns (data, code).
\* suppress(TimeoutError, SourceError) swallows the two retryable failures and
\* the loop's else branch answers once range(3) is used up.
_call_update(attempt, outcome, err_station, err_source) ==
    CASE outcome = "ok" ->
            [next |-> "ok", data |-> None, code |-> HTTP_OK]
      [] outcome \in {"timeout", "source_error"} ->
            IF attempt + 1 < Retries
            THEN [next |-> "retry", data |-> None, code |-> HTTP_OK]
            ELSE [next |-> "error", data |-> ErrorData(ERRORS(5, err_source), FALSE), code |-> BAD_GATEWAY]
      [] outcome = "not_found" ->
            [next |-> "error", data |-> ErrorData(ERRORS(0, err_station), FALSE), code |-> BAD_REQUEST]
      [] outcome = "cancelled" ->
            [next |-> "error", data |-> ErrorData(Err("server_rebooting", ""), FALSE), code |-> SERVICE_UNAVAILABLE]
      [] outcome = "connection_error" ->
            [next |-> "error", data |-> ErrorData(Err("str_exc", ""), FALSE), code |-> BAD_GATEWAY]
      [] outcome = "invalid_request" ->
            [next |-> "error", data |-> ErrorData(ERRORS(0, err_station), FALSE), code |-> BAD_REQUEST]
      [] OTHER ->
            [next |-> "error", data |-> ErrorData(ERRORS(4, ""), FALSE), code |-> INTERNAL_SERVER_ERROR]

\* Mutant: a parse failure is answered without the raw report
_post_update_no_raw(outcome, station) ==
    CASE outcome = "ok" -> [next |-> "ok", data |-> None, code |-> HTTP_OK]
      [] outcome = "bad_station" ->
            [next |-> "error", data |-> ErrorData(ERRORS(2, station), FALSE), code |-> BAD_REQUEST]
      [] OTHER ->
            [next |-> "error", data |-> ErrorData(ERRORS(1, ""), FALSE), code |-> INTERNAL_SERVER_ERROR]

\* _update_parser after the fetch: parser._post_update() ended with `outcome`
_post_update(outcome, station) ==
    CASE outcome = "ok" -> [next |-> "ok", data |-> None, code |-> HTTP_OK]
      [] outcome = "bad_station" ->
            [next |-> "error", data |-> ErrorData(ERRORS(2, station), FALSE), code |-> BAD_REQUEST]
      [] OTHER ->
            [next |-> "error", data |-> ErrorData(ERRORS(1, ""), TRUE), code |-> INTERNAL_SERVER_ERROR]

----------------------------------------------------------------------------
(* ReportHandler._post_handle *)

Warn(id, arg) == [id |-> id, arg |-> arg]

\* _format_report merged into resp: the report dict under data["data"]
_format_report(d) == [d EXCEPT !.ts = -1]

\* Mutant: the stale record is served without the warning
_post_handle_no_warning(d, code, cached, cfg) ==
    LET resp == [make_meta EXCEPT !.cacheTs = d.ts]
    IN  IF code # HTTP_OK
        THEN IF cfg.cache_on_fail /\ cached.kind # "none"
             THEN [resp |-> [resp EXCEPT !.cacheTs = cached.ts, !.body = _format_report(cached)],
                   code |-> HTTP_OK]
             ELSE [resp |-> [resp EXCEPT !.error = d.err, !.raw = d.raw], code |-> code]
        ELSE [resp |-> [resp EXCEPT !.body = _format_report(d)], code |-> code]

\* Mutant: without a cached record cache_on_fail falls through to the plain
\* error branch
_post_handle_keeps_error(d, code, cached, cfg) ==
    LET resp == [make_meta EXCEPT !.cacheTs = d.ts]
    IN  IF code # HTTP_OK
        THEN IF cfg.cache_on_fail /\ cached.kind # "none"
             THEN [resp |-> [resp EXCEPT !.cacheTs = cached.ts,
                                         !.warning = Warn(ErrorTexts[8], ""),
                                         !.body = _format_report(cached)],
                   code |-> HTTP_OK]
             ELSE [resp |-> [resp EXCEPT !.error = d.err, !.raw = d.raw], code |-> code]
        ELSE [resp |-> [resp EXCEPT !.body = _format_report(d)], code |-> code]

\* Mutant: the plain error branch copies the error message only
_post_handle_error_only(d, code, cached, cfg) ==
    LET resp == [make_meta EXCEPT !.cacheTs = d.ts]
    IN  IF code # HTTP_OK
        THEN IF cfg.cache_on_fail
             THEN IF cached.kind = "none"
                  THEN [resp |-> [resp EXCEPT !.error = Err("no_report_or_cache", "")],
                        code |-> NO_CONTENT]
                  ELSE [resp |-> [resp EXCEPT !.cacheTs = cached.ts,
                                              !.warning = Warn(ErrorTexts[8], ""),
                                              !.body = _format_report(cached)],
                        code |-> HTTP_OK]
             ELSE [resp |-> [resp EXCEPT !.error = d.err], code |-> code]
        ELSE [resp |-> [resp EXCEPT !.body = _format_report(d)], code |-> code]

\* The part of _post_handle that does not recurse: code, then the cache_on_fail
\* branch, the plain error branch or the formatted report
_post_handle(d, code, cached, cfg) ==
    LET resp == [make_meta EXCEPT !.cacheTs = d.ts]
    IN  IF code # HTTP_OK
        THEN IF cfg.cache_on_fail
             THEN IF cached.kind = "none"
                  THEN [resp |-> [resp EXCEPT !.error = Err("no_report_or_cache", "")],
                        code |-> NO_CONTENT]
                  ELSE [resp |-> [resp EXCEPT !.cacheTs = cached.ts,
                                              !.warning = Warn(ErrorTexts[8], ""),
                                              !.body = _format_report(cached)],
                        code |-> HTTP_OK]
             ELSE [resp |-> [resp EXCEPT !.error = d.err, !.raw = d.raw], code |-> code]
        ELSE [resp |-> [resp EXCEPT !.body = _format_report(d)], code |-> code]

\* Mutant: the warning names the station that answered
NearestWarningAnswering(resp, station) ==
    [resp EXCEPT !.warning = Warn("no_report_found_at", resp.body.station)]

\* After the recursive fetch_report returns: resp["meta"]["warning"] = text,
\* or resp["warning"] = text when the response has no meta
NearestWarning(resp, station) ==
    LET text == Warn("no_report_found_at", storage_code(station))
    IN  IF resp.meta THEN [resp EXCEPT !.warning = text] ELSE [resp EXCEPT !.topWarning = text]

\* fetch_report's except Exception: the parsing error, with no meta
OuterError == [resp |-> [NoResp EXCEPT !.error = ERRORS(1, "")], code |-> INTERNAL_SERVER_ERROR]

\* WARNINGS[0]
WARNINGS == Warn("awos_advisory", "")

\* _handle_cache_only after _post_handle: data["meta"]["warning"] = WARNINGS[0]
\* when data["raw"] has "ADVISORY"; a missing key is suppressed
AdvisoryWarning(resp) ==
    IF resp.body.advisory /\ resp.meta THEN [resp EXCEPT !.warning = WARNINGS] ELSE resp

----------------------------------------------------------------------------
(* Control flow of fetch_report.  A frame is one activation; its pc is the  *)
(* await it is suspended at.                                                *)

Frame(s, pc) == [station |-> s, pc |-> pc, data |-> None, code |-> HTTP_OK, cached |-> None,
                 attempt |-> 0, log |-> <<>>, parse |-> "", readAt |-> -1, wrote |-> FALSE,
                 raisedAt |-> ""]

Front(q) == SubSeq(q, 1, Len(q) - 1)

Last(q) == q[Len(q)]

\* ReportHandler.fetch_report starts with the cache-only test;
\* PirepHandler.fetch_report has none
CacheOnlyPath(s) == handler = "report" /\ _cache_only_source(s)

\* What the activation f does to the response of its _post_handle before it
\* returns it: _handle_cache_only adds the advisory warning
Leave(f, resp) == IF CacheOnlyPath(f.station) THEN AdvisoryWarning(resp) ELSE resp

RECURSIVE Deliver(_, _, _, _, _)
\* An activation returns (resp, code): to the caller when there is none above
\* it, else into the _post_handle that awaits it, which adds the warning and
\* returns the same code
Deliver(stk, resp, code, cfg, h) ==
    IF stk = <<>>
    THEN [stack |-> <<>>, config |-> cfg, done |-> TRUE, resp |-> resp, code |-> code, hist |-> h,
          raised |-> ""]
    ELSE Deliver(Front(stk), Leave(Last(stk), NearestWarning(resp, Last(stk).station)), code, cfg, h)

\* fetch_report up to its first await
Enter(stk, s, cfg, h) ==
    IF CacheOnlyPath(s)
    THEN [stack |-> Append(stk, Frame(s, "cache_only_get")), config |-> cfg, done |-> FALSE,
          resp |-> NoResp, code |-> HTTP_OK, hist |-> h, raised |-> ""]
    ELSE IF ~sends_reports(s)
    THEN Deliver(stk, [NoResp EXCEPT !.error = ERRORS(6, storage_code(s))], NO_CONTENT, cfg,
                 Append(h, Frame(s, "no_reports")))
    ELSE [stack |-> Append(stk, Frame(s, "cache_get")), config |-> cfg, done |-> FALSE,
          resp |-> NoResp, code |-> HTTP_OK, hist |-> h, raised |-> ""]

\* An activation an exception leaves, with the await it was raised at
Raised(f) == [f EXCEPT !.pc = "raised", !.raisedAt = f.pc]

\* The activations whose awaits are inside fetch_report's try: those of
\* ReportHandler.fetch_report past the cache-only test.  _handle_cache_only is
\* awaited before the try and PirepHandler.fetch_report has no try.
Contained(f) == handler = "report" /\ ~_cache_only_source(f.station)

RECURSIVE Propagate(_, _, _, _)
\* The exception exc is raised at the await of the innermost activation of
\* stk: the first activation outwards that has the try and whose
\* `except Exception` matches returns the parsing error to its caller
\* (CancelledError is a BaseException and matches nowhere); with no such
\* activation the exception leaves fetch_report
Propagate(stk, exc, cfg, h) ==
    IF stk = <<>>
    THEN [stack |-> <<>>, config |-> cfg, done |-> TRUE, resp |-> NoResp, code |-> 0, hist |-> h,
          raised |-> exc]
    ELSE IF Contained(Last(stk)) /\ exc # "CancelledError"
    THEN Deliver(Front(stk), OuterError.resp, OuterError.code, cfg, h)
    ELSE Propagate(Front(stk), exc, cfg, h)

\* An activation that hands over to the nearest station: its error data, code
\* and the outcomes of its attempts are not used again and are not kept
Superseded(f) == [f EXCEPT !.pc = "await_nearest", !.log = <<>>, !.parse = "", !.attempt = 0,
                           !.data = None, !.code = 0]

\* An activation whose _post_handle has returned
Returned(f) == [f EXCEPT !.pc = "returned"]

\* Mutant: the flag is not cleared before the recursive call
KeepNearest(cfg) == cfg

\* config.nearest_on_fail = False
ClearNearest(cfg) == [cfg EXCEPT !.nearest_on_fail = FALSE]

\* _post_handle of the innermost activation f, its data and code settled, up
\* to its return or its next await: the recursive fetch_report (near[0][0] of
\* an empty list is an IndexError) or station_data_for after the formatting
Continue(stk, f, cfg, h) ==
    IF f.code # HTTP_OK /\ cfg.nearest_on_fail
    THEN LET cfg2 == ClearNearest(cfg)
             near == nearby(f.station)
         IN  IF near = <<>>
             THEN Propagate(Append(stk, f), "IndexError", cfg2, Append(h, Raised(f)))
             ELSE Enter(Append(stk, Superseded(f)), near[1], cfg2, Append(h, Superseded(f)))
    ELSE LET r == _post_handle(f.data, f.code, f.cached, cfg)
         IN  IF cfg.station /\ r.resp.body.kind # "none"
             THEN [stack |-> Append(stk, [f EXCEPT !.pc = "station_info"]), config |-> cfg,
                   done |-> FALSE, resp |-> NoResp, code |-> HTTP_OK, hist |-> h, raised |-> ""]
             ELSE Deliver(stk, Leave(f, r.resp), r.code, cfg, Append(h, Returned(f)))

Top == Last(stack)

Callers == Front(stack)

Running == stack # <<>>

NoSummary == [station |-> "", ver |-> 0, at |-> -1]

\* What is remembered of the request before the running one: only a request
\* that found nothing cached, fetched the report in one attempt from a healthy
\* source and returned it with 200 is remembered, with the time it ended
Summary ==
    IF /\ result.done /\ result.code = HTTP_OK /\ Len(hist) = 1
       /\ hist[1].cached.kind = "none" /\ hist[1].log = <<"ok">> /\ hist[1].wrote
    THEN [station |-> hist[1].station, ver |-> result.resp.body.ver, at |-> now]
    ELSE NoSummary

Apply(ns) ==
    /\ stack' = ns.stack
    /\ config' = ns.config
    /\ hist' = ns.hist
    /\ result' = [resp |-> ns.resp, code |-> IF ns.done THEN ns.code ELSE 0, done |-> ns.done,
                  raised |-> ns.raised]

----------------------------------------------------------------------------
(* Delayed usage counter (avwx_api/counter.py) *)

MaxAdds == 4

NumWorkers == 3

Icaos == {"KJFK", "KLGA"}

RequestTypes == {"metar"}

\* key = f"{icao};{request_type}" and key.split(";")
MakeKey(icao, request_type) == <<icao, ";", request_type>>

SplitKey(key) == [icao |-> key[1], request_type |-> key[3]]

Keys == {MakeKey(i, r) : i \in Icaos, r \in RequestTypes}

Workers == 1..NumWorkers

NoJob == [icao |-> "", request_type |-> "", count |-> 0]

Zero == [k \in Keys |-> 0]

HasKey(d, key) == \E i \in DOMAIN d : d[i].key = key

\* Mutant: an existing key is set to 1 again
IncrementReset(d, key) ==
    IF HasKey(d, key)
    THEN [i \in DOMAIN d |-> IF d[i].key = key THEN [d[i] EXCEPT !.count = 1] ELSE d[i]]
    ELSE Append(d, [key |-> key, count |-> 1])

\* add: self._data[key] += 1, or = 1 on KeyError
Increment(d, key) ==
    IF HasKey(d, key)
    THEN [i \in DOMAIN d |-> IF d[i].key = key THEN [d[i] EXCEPT !.count = @ + 1] ELSE d[i]]
    ELSE Append(d, [key |-> key, count |-> 1])

\* update: one (icao, request_type, count) job per item of the gathered dict
JobOf(item) == [icao |-> SplitKey(item.key).icao,
                request_type |-> SplitKey(item.key).request_type,
                count |-> item.count]

JobsOf(to_update) == [i \in DOMAIN to_update |-> JobOf(to_update[i])]

UpdateWithoutSwap(d, q) == [data |-> d, locked |-> FALSE, queue |-> q \o JobsOf(d), due |-> FALSE]

\* gather_data swaps the dict out (locked is set and cleared inside it) and
\* update puts the jobs on the queue and moves update_at one interval on
Update(d, q) == [data |-> <<>>, locked |-> FALSE, queue |-> q \o JobsOf(d), due |-> FALSE]

\* worker: update_one({"_id": icao}, {"$inc": {request_type.date: count}}, upsert=True)
UpdateOne(store, job) ==
    [store EXCEPT ![MakeKey(job.icao, job.request_type)] = @ + job.count]

RECURSIVE UpdateAll(_, _)
UpdateAll(store, jobs) ==
    IF jobs = {} THEN store
    ELSE LET j == CHOOSE x \in jobs : TRUE
         IN  UpdateAll(UpdateOne(store, j.job), jobs \ {j})

Sum(f) ==
    LET RECURSIVE S(_)
        S(D) == IF D = {} THEN 0 ELSE LET x == CHOOSE y \in D : TRUE IN f[x] + S(D \ {x})
    IN  S(DOMAIN f)

InitCounter ==
    /\ data_ = <<>>
    /\ locked = FALSE
    /\ due = FALSE
    /\ queue = <<>>
    /\ workers = [w \in Workers |-> [state |-> "waiting", job |-> NoJob]]
    /\ persisted = Zero
    /\ shutdown = "serving"
    /\ added = Zero
    /\ sinceFlush = Zero

AddIncrementFirst(icao, request_type) ==
    /\ shutdown = "serving"
    /\ Sum(added) < MaxAdds
    /\ LET key == MakeKey(icao, request_type)
           counted == Increment(data_, key)
           u == IF due THEN Update(counted, queue)
                       ELSE [data |-> counted, locked |-> locked, queue |-> queue, due |-> due]
       IN  /\ ~u.locked
           /\ data_' = u.data
           /\ locked' = u.locked
           /\ queue' = u.queue
           /\ due' = u.due
           /\ added' = [added EXCEPT ![key] = @ + 1]
           /\ sinceFlush' = IF due THEN Zero ELSE [sinceFlush EXCEPT ![key] = @ + 1]
    /\ UNCHANGED <<workers, persisted, shutdown, fetchVars, storeVars, extVars>>

\* DelayedCounter.add(icao, request_type): flushes first when the interval has
\* elapsed, would wait while locked, then counts
Add(icao, request_type) ==
    /\ shutdown = "serving"
    /\ Sum(added) < MaxAdds
    /\ LET key == MakeKey(icao, request_type)
           u == IF due THEN Update(data_, queue)
                       ELSE [data |-> data_, locked |-> locked, queue |-> queue, due |-> due]
       IN  /\ ~u.locked
           /\ data_' = Increment(u.data, key)
           /\ locked' = u.locked
           /\ queue' = u.queue
           /\ due' = u.due
           /\ added' = [added EXCEPT ![key] = @ + 1]
           /\ sinceFlush' = [(IF due THEN Zero ELSE sinceFlush) EXCEPT ![key] = @ + 1]
    /\ UNCHANGED <<workers, persisted, shutdown, fetchVars, storeVars, extVars>>

\* The flush interval elapses: time.time() > update_at
IntervalElapses ==
    /\ shutdown = "serving"
    /\ ~due
    /\ due' = TRUE
    /\ UNCHANGED <<data_, locked, queue, workers, persisted, shutdown, added, sinceFlush, fetchVars, storeVars, extVars>>

\* worker: queue.get() returns a job and update_one is awaited
WorkerGet(w) ==
    /\ workers[w].state = "waiting"
    /\ queue # <<>>
    /\ workers' = [workers EXCEPT ![w] = [state |-> "updating", job |-> Head(queue)]]
    /\ queue' = Tail(queue)
    /\ UNCHANGED <<data_, locked, due, persisted, shutdown, added, sinceFlush, fetchVars, storeVars, extVars>>

\* worker: update_one returns, task_done, back to queue.get()
WorkerDone(w) ==
    /\ workers[w].state = "updating"
    /\ persisted' = UpdateOne(persisted, workers[w].job)
    /\ workers' = [workers EXCEPT ![w] = [state |-> "waiting", job |-> NoJob]]
    /\ UNCHANGED <<data_, locked, due, queue, shutdown, added, sinceFlush, fetchVars, storeVars, extVars>>

\* worker: update_one raises.  Nothing in worker catches it: the exception
\* ends the task, the job is gone and task_done is not called.
WorkerRaises(w) ==
    /\ workers[w].state = "updating"
    /\ workers' = [workers EXCEPT ![w] = [state |-> "failed", job |-> NoJob]]
    /\ UNCHANGED <<data_, locked, due, queue, persisted, shutdown, added, sinceFlush, fetchVars, storeVars, extVars>>

\* clean_queue up to its wait: the final _COUNTER.update()
CleanQueueFlush ==
    /\ shutdown = "serving"
    /\ LET u == Update(data_, queue)
       IN  /\ data_' = u.data
           /\ locked' = u.locked
           /\ queue' = u.queue
           /\ due' = u.due
    /\ sinceFlush' = Zero
    /\ shutdown' = "waiting"
    /\ UNCHANGED <<workers, persisted, added, fetchVars, storeVars, extVars>>

\* clean_queue: queue.empty() holds after a sleep, every worker is cancelled
\* and awaited.  A worker cancelled inside update_one has its write either
\* applied by the store or not: `landed` are the workers whose write is.
CleanQueueCancel(landed) ==
    /\ shutdown = "waiting"
    /\ queue = <<>>
    /\ landed \subseteq {w \in Workers : workers[w].state = "updating"}
    /\ persisted' = UpdateAll(persisted, {[w |-> w, job |-> workers[w].job] : w \in landed})
    /\ workers' = [w \in Workers |-> IF workers[w].state = "failed" THEN workers[w]
                                       ELSE [state |-> "cancelled", job |-> NoJob]]
    /\ shutdown' = "done"
    /\ UNCHANGED <<data_, locked, due, queue, added, sinceFlush, fetchVars, storeVars, extVars>>

NextCounter ==
    \/ \E i \in Icaos, r \in RequestTypes : Add(i, r)
    \/ IntervalElapses
    \/ \E w \in Workers : WorkerGet(w)
    \/ \E w \in Workers : WorkerDone(w)
    \/ CleanQueueFlush
    \/ \E landed \in SUBSET Workers : CleanQueueCancel(landed)

\* The counter with a Metering Store whose writes can fail
NextMeter ==
    \/ \E i \in Icaos, r \in RequestTypes : Add(i, r)
    \/ IntervalElapses
    \/ \E w \in Workers : WorkerGet(w)
    \/ \E w \in Workers : WorkerDone(w)
    \/ \E w \in Workers : WorkerRaises(w)
    \/ CleanQueueFlush
    \/ \E landed \in SUBSET Workers : CleanQueueCancel(landed)

\* What the event loop and the store guarantee: a worker waiting on a queue
\* that has a job gets one, an update_one that was issued ends (by returning
\* or by raising), and clean_queue goes on once its wait is over.  The time of
\* the next add and of the shutdown is the environment's.
FairWorkers ==
    /\ WF_vars(\E w \in Workers : WorkerGet(w))
    /\ WF_vars(\E landed \in SUBSET Workers : CleanQueueCancel(landed))

----------------------------------------------------------------------------
(* The document cache class (avwx_api/cache.py): replace_keys, Cache.get    *)
(* and Cache.update with their five-attempt loops                           *)

CacheRetries == 5

\* Values of a payload.  A dict is its items in insertion order; a list is
\* its elements as items with an empty key; a leaf is any scalar.
PayloadKeys == {"$", "a"}

Item(k, v) == [k |-> k, v |-> v]

Leaf == [t |-> "leaf", items |-> <<>>]

NoneValue == [t |-> "none", items |-> <<>>]

Dict(items) == [t |-> "dict", items |-> items]

List(values) == [t |-> "list", items |-> [i \in DOMAIN values |-> Item("", values[i])]]

\* What the interpreter raises when a dict changes while it is iterated
RuntimeError == [t |-> "RuntimeError", items |-> <<>>]

DictHas(items, key) == \E i \in DOMAIN items : items[i].k = key

DictGet(items, key) == items[CHOOSE i \in DOMAIN items : items[i].k = key].v

\* data.pop(key), the dict that is left
DictPop(items, key) == SelectSeq(items, LAMBDA it : it.k # key)

\* data[key] = v: in place for a key the dict has, appended otherwise
DictSet(items, key, v) ==
    IF DictHas(items, key)
    THEN [i \in DOMAIN items |-> IF items[i].k = key THEN Item(key, v) ELSE items[i]]
    ELSE Append(items, Item(key, v))

\* replace_keys(data, key, by_key), the loop taken over the items the dict had
\* when the loop began.  It descends into the values that are dicts and into
\* nothing else.  With k = key and v a dict, data[by_key] and data[k] end up
\* as the same (replaced) object.
RECURSIVE replace_keys(_, _, _)
replace_keys(data, key, by_key) ==
    LET RECURSIVE loop(_, _)
        loop(items, i) ==
            IF i > Len(data.items) THEN items
            ELSE LET k == data.items[i].k
                     v == data.items[i].v
                     renamed == IF k = key
                                THEN DictSet(DictPop(items, key), by_key, DictGet(items, key))
                                ELSE items
                     inner == replace_keys(v, key, by_key)
                     descended == IF v.t = "dict"
                                  THEN DictSet(IF k = key THEN DictSet(renamed, by_key, inner)
                                                          ELSE renamed, k, inner)
                                  ELSE renamed
                 IN  loop(descended, i + 1)
    IN  IF data.t = "none" THEN data ELSE Dict(loop(data.items, 1))

\* Whether replace_keys adds or removes a key of a dict while iterating it
RECURSIVE ChangesWhileIterating(_, _)
ChangesWhileIterating(data, key) ==
    /\ data.t = "dict"
    /\ \E i \in DOMAIN data.items :
           data.items[i].k = key \/ ChangesWhileIterating(data.items[i].v, key)

\* The outcomes of a replace_keys call: a dict changed under its own iteration
\* either makes the interpreter raise RuntimeError or goes unnoticed
replace_keys_outcomes(data, key, by_key) ==
    {replace_keys(data, key, by_key)} \cup
    (IF ChangesWhileIterating(data, key) THEN {RuntimeError} ELSE {})

\* The payloads handed to Cache.update
Inner ==
    {Leaf, Dict(<<>>)} \cup {Dict(<<Item(k, Leaf)>>) : k \in PayloadKeys}
                       \cup {List(<<Dict(<<Item(k, Leaf)>>)>>) : k \in PayloadKeys}

Payloads ==
    {Dict(<<>>)} \cup {Dict(<<Item(k, v)>>) : k \in PayloadKeys, v \in Inner}
                 \cup {Dict(<<Item(ks[1], Leaf), Item(ks[2], Leaf)>>) :
                           ks \in {q \in PayloadKeys \X PayloadKeys : q[1] # q[2]}}

\* A document of the store and the value a call returns
Absent == [present |-> FALSE, timestamp |-> -1, data |-> NoneValue, orig |-> NoneValue]

Document(ts, data, orig) == [present |-> TRUE, timestamp |-> ts, data |-> data, orig |-> orig]

StoreOutcomes == {"ok", "operation_failure", "auto_reconnect", "other"}

Idle == [name |-> "none", force |-> FALSE, status |-> "idle", attempt |-> 0, log |-> <<>>,
         doc |-> Absent, ret |-> Absent]

\* What one turn of a loop did: how the store operation ended and, for a
\* read, how old the stored document was then (-1 with no document)
Attempt(outcome, age) == [outcome |-> outcome, age |-> age]

Age == IF stored.present THEN clock - stored.timestamp ELSE -1

InitStore ==
    /\ stored = Absent
    /\ op = Idle
    /\ clock = 0

\* Cache.update(rtype, data) up to its first await
CacheUpdateBegins(payload) ==
    /\ op.status # "awaiting"
    /\ IF ~mongo_uri
       THEN op' = [Idle EXCEPT !.name = "update", !.status = "returned"]
       ELSE \E escaped \in replace_keys_outcomes(payload, "$", "_$") :
                op' = IF escaped = RuntimeError
                      THEN [Idle EXCEPT !.name = "update", !.status = "raised",
                                        !.doc = Document(-1, payload, payload)]
                      ELSE [Idle EXCEPT !.name = "update", !.status = "awaiting", !.attempt = 1,
                                        !.doc = Document(clock, escaped, payload)]
    /\ UNCHANGED <<mongo_uri, stored, clock, fetchVars, counterVars, extVars>>

AgainSix(o) ==
    IF o.attempt = CacheRetries + 1 THEN [o EXCEPT !.status = "returned"]
                                    ELSE [o EXCEPT !.attempt = @ + 1]

\* One more turn of a five-attempt loop after a sleep, or its end
Again(o) ==
    IF o.attempt = CacheRetries THEN [o EXCEPT !.status = "returned"]
                                ELSE [o EXCEPT !.attempt = @ + 1]

UpdateOneEnds_retries_failure(outcome) ==
    /\ op.name = "update"
    /\ op.status = "awaiting"
    /\ LET o == [op EXCEPT !.log = Append(@, Attempt(outcome, -1))]
       IN  /\ op' = CASE outcome = "ok" -> [o EXCEPT !.status = "returned"]
                      [] outcome = "operation_failure" -> Again(o)
                      [] outcome = "auto_reconnect" -> Again(o)
                      [] OTHER -> [o EXCEPT !.status = "raised"]
           /\ stored' = IF outcome = "ok" THEN op.doc ELSE stored
    /\ UNCHANGED <<mongo_uri, clock, fetchVars, counterVars, extVars>>

\* Cache.update: update_one ends with `outcome`
UpdateOneEnds(outcome) ==
    /\ op.name = "update"
    /\ op.status = "awaiting"
    /\ LET o == [op EXCEPT !.log = Append(@, Attempt(outcome, -1))]
       IN  /\ op' = CASE outcome = "ok" -> [o EXCEPT !.status = "returned"]
                      [] outcome = "operation_failure" -> [o EXCEPT !.status = "returned"]
                      [] outcome = "auto_reconnect" -> Again(o)
                      [] OTHER -> [o EXCEPT !.status = "raised"]
           /\ stored' = IF outcome = "ok" THEN op.doc ELSE stored
    /\ UNCHANGED <<mongo_uri, clock, fetchVars, counterVars, extVars>>

\* Cache.get(rtype, station, force) up to its first await
CacheGetBegins(force) ==
    /\ op.status # "awaiting"
    /\ op' = IF ~mongo_uri
             THEN [Idle EXCEPT !.name = "get", !.force = force, !.status = "returned"]
             ELSE [Idle EXCEPT !.name = "get", !.force = force, !.status = "awaiting",
                               !.attempt = 1]
    /\ UNCHANGED <<mongo_uri, stored, clock, fetchVars, counterVars, extVars>>

\* Cache.get: find_one ends with `outcome`; a document read is unescaped and
\* returned when forced or not expired, else the loop turns at once
FindOneEnds(outcome) ==
    /\ op.name = "get"
    /\ op.status = "awaiting"
    /\ LET o == [op EXCEPT !.log = Append(@, Attempt(outcome, Age))]
       IN  CASE outcome = "ok" ->
                    \E data \in replace_keys_outcomes(stored.data, "_$", "$") :
                        op' = IF data = RuntimeError
                              THEN [o EXCEPT !.status = "raised"]
                              ELSE IF op.force \/ (stored.present /\
                                       ~has_expired(clock, stored.timestamp, MaxAge))
                                   THEN [o EXCEPT !.status = "returned",
                                                  !.ret = [stored EXCEPT !.data = data]]
                                   ELSE Again(o)
              [] outcome = "operation_failure" -> op' = [o EXCEPT !.status = "returned"]
              [] outcome = "auto_reconnect" -> op' = Again(o)
              [] OTHER -> op' = [o EXCEPT !.status = "raised"]
    /\ UNCHANGED <<mongo_uri, stored, clock, fetchVars, counterVars, extVars>>

\* A minute passes
Tick ==
    /\ clock < MaxTime
    /\ clock' = clock + 1
    /\ UNCHANGED <<mongo_uri, stored, op, fetchVars, counterVars, extVars>>

NextCache ==
    \/ \E p \in Payloads : CacheUpdateBegins(p)
    \/ \E o \in StoreOutcomes : UpdateOneEnds(o)
    \/ \E f \in BOOLEAN : CacheGetBegins(f)
    \/ \E o \in StoreOutcomes : FindOneEnds(o)
    \/ Tick

----------------------------------------------------------------------------
(* The report manager and the multi-station request before their first call *)

\* No fetch_reports call yet
NoManagerCall == [pc |-> "idle", config |-> NoConfig, cache |-> <<>>, data |-> <<>>, code |-> 0,
                  attempt |-> 0, log |-> <<>>, resp |-> NoResp, listed |-> FALSE, reports |-> <<>>,
                  status |-> 0, raised |-> ""]

InitManager == mgr = NoManagerCall

InitMulti == calls = <<>>

\* The tokens and the requests of the model
Tokens == {"tok"}

MaxTokenRequests == 2

TokenRequests == 1..MaxTokenRequests

\* The limit of a token: None or a number of calls
NoLimit == -1

\* A key _data does not have
Missing == [state |-> "missing", count |-> 0, total |-> 0]

\* self._data[token] = None: a fetch of the token is in progress
Marker == [state |-> "none", count |-> 0, total |-> 0]

NoTokenRequest == [pc |-> "idle", token |-> "", got |-> "", added |-> "", sum |-> -1,
                   fetches |-> 0, waited |-> FALSE]

\* The cache is empty, the queue too; the token table has the token, unlimited
InitToken ==
    /\ tdata = [t \in Tokens |-> Missing]
    /\ tdue = FALSE
    /\ tqueue = <<>>
    /\ tusage = 0
    /\ treqs = [r \in TokenRequests |-> NoTokenRequest]
    /\ tdb = [known |-> TRUE, limit |-> NoLimit]

InitExt == InitManager /\ InitMulti /\ InitToken

----------------------------------------------------------------------------
(* Actions of the fetch orchestration *)

NoResult == [resp |-> NoResp, code |-> 0, done |-> FALSE, raised |-> ""]

InitFetch ==
    /\ cache = [s \in Stations |-> None]
    /\ now = 0
    /\ srcVer = 0
    /\ config = NoConfig
    /\ stack = <<>>
    /\ result = NoResult
    /\ hist = <<>>
    /\ reqConfig = NoConfig
    /\ prev = NoSummary
    /\ nreq = 0
    /\ handler = "report"

\* A caller builds the config with from_params and calls fetch_report(s, config)
Request(s, onfail) ==
    /\ ~Running
    /\ nreq < MaxRequests
    /\ nreq' = nreq + 1
    /\ reqConfig' = from_params(onfail, {})
    /\ prev' = Summary
    /\ Apply(Enter(<<>>, s, from_params(onfail, {}), <<>>))
    /\ UNCHANGED <<cache, now, srcVer, handler, counterVars, storeVars, extVars>>

\* The clock is read only by the cache (has_expired, the stamp of update) and
\* the source's report only by a fetch: each such step happens at some time
\* t >= now, respectively sees some version v >= srcVer.
Times == now..MaxTime

Versions == srcVer..MaxVer

\* ReportHandler.fetch_report passes force_cache=True,
\* PirepHandler.fetch_report leaves the default
force_cache == handler = "report"

\* _station_cache_or_fetch: the cache read answers; a missing or expired
\* record starts a new report, a fresh one is the data
StationCacheOrFetch(t) ==
    /\ Running
    /\ Top.pc = "cache_get"
    /\ now' = t
    /\ LET c == CacheGet(t, storage_code(Top.station), force_cache)
           expired == has_expired(t, c.ts, MaxAge)
           f == [Top EXCEPT !.cached = c, !.readAt = t]
       IN  IF c.kind = "none" \/ expired
           THEN /\ stack' = Append(Callers, [f EXCEPT !.pc = "call_update"])
                /\ UNCHANGED <<config, hist, result>>
           ELSE Apply(Continue(Callers, [f EXCEPT !.data = c, !.code = HTTP_OK], config, hist))
    /\ Len(stack') <= MaxDepth
    /\ UNCHANGED <<cache, srcVer, reqConfig, prev, nreq, handler, counterVars, storeVars, extVars>>

\* One attempt of the source operation inside _call_update ends
CallUpdate(outcome, v) ==
    /\ Running
    /\ Top.pc = "call_update"
    /\ srcVer' = v
    /\ LET r == _call_update(Top.attempt, outcome, lookup_code(Top.station), SourceName)
           f == [Top EXCEPT !.log = Append(@, outcome), !.attempt = @ + 1]
       IN  CASE r.next = "retry" ->
                    /\ stack' = Append(Callers, f)
                    /\ UNCHANGED <<config, hist, result>>
             [] r.next = "ok" ->
                    /\ stack' = Append(Callers, [f EXCEPT !.pc = "post_update",
                                                          !.data = Report(lookup_code(Top.station), v)])
                    /\ UNCHANGED <<config, hist, result>>
             [] OTHER ->
                    Apply(Continue(Callers, [f EXCEPT !.data = r.data, !.code = r.code], config, hist))
    /\ outcome # "ok" => v = srcVer
    /\ Len(stack') <= MaxDepth
    /\ UNCHANGED <<cache, now, reqConfig, prev, nreq, handler, counterVars, storeVars, extVars>>

\* _update_parser: parser._post_update() ends
PostUpdate(outcome) ==
    /\ Running
    /\ Top.pc = "post_update"
    /\ LET r == _post_update(outcome, Top.station)
           f == [Top EXCEPT !.parse = outcome]
       IN  IF r.next = "ok"
           THEN /\ stack' = Append(Callers, [f EXCEPT !.pc = "cache_update"])
                /\ UNCHANGED <<config, hist, result>>
           ELSE Apply(Continue(Callers, [f EXCEPT !.data = r.data, !.code = r.code], config, hist))
    /\ Len(stack') <= MaxDepth
    /\ UNCHANGED <<cache, now, srcVer, reqConfig, prev, nreq, handler, counterVars, storeVars, extVars>>

\* _new_report: the awaited cache write ends and the report is returned with 200
NewReportCached(t) ==
    /\ Running
    /\ Top.pc = "cache_update"
    /\ now' = t
    /\ cache' = CacheUpdate(t, lookup_code(Top.station), Top.data)
    /\ Apply(Continue(Callers, [Top EXCEPT !.data = Stamp(t, Top.data), !.code = HTTP_OK, !.wrote = TRUE],
                      config, hist))
    /\ UNCHANGED <<srcVer, reqConfig, prev, nreq, handler, counterVars, storeVars, extVars>>

Init == InitFetch /\ InitCounter /\ InitStore /\ mongo_uri = TRUE /\ InitExt

InitCache == InitFetch /\ InitCounter /\ InitStore /\ mongo_uri \in BOOLEAN /\ InitExt

NextFetch ==
    \/ \E s \in Stations, onfail \in OnFail : Request(s, onfail)
    \/ \E t \in Times : StationCacheOrFetch(t)
    \/ \E o \in SourceOutcomes, v \in Versions : CallUpdate(o, v)
    \/ \E o \in ParseOutcomes : PostUpdate(o)
    \/ \E t \in Times : NewReportCached(t)

SpecFetch == Init /\ [][NextFetch]_vars

SpecCounter == Init /\ [][NextCounter]_vars

SpecCache == InitCache /\ [][NextCache]_vars

SpecMeter == Init /\ [][NextMeter]_vars

\* The counter under fair scheduling, time passing included
SpecCounterFair ==
    /\ Init
    /\ [][NextCounter]_vars
    /\ FairWorkers
    /\ WF_vars(\E w \in Workers : WorkerDone(w))
    /\ WF_vars(IntervalElapses)

SpecMeterFair ==
    /\ Init
    /\ [][NextMeter]_vars
    /\ FairWorkers
    /\ WF_vars(\E w \in Workers : WorkerDone(w) \/ WorkerRaises(w))
    /\ WF_vars(IntervalElapses)

----------------------------------------------------------------------------
(* fetch_report of either handler class, for any station, with the awaits   *)
(* that can raise or be cancelled                                           *)

\* What the cache table can hold for a station when the request arrives: no
\* record or one written at time 0; raw reports of an AWOS may say ADVISORY
StoredAtStart(s) ==
    IF ~sends_reports(s) THEN {None}
    ELSE {None, Stamp(0, Report(s, 0))}
         \cup (IF _cache_only_source(s) THEN {Stamp(0, [Report(s, 0) EXCEPT !.advisory = TRUE])} ELSE {})

InitHandle ==
    /\ cache \in {c \in [AllStations -> UNION {StoredAtStart(s) : s \in AllStations}] :
                      \A s \in AllStations : c[s] \in StoredAtStart(s)}
    /\ now = 0
    /\ srcVer = 0
    /\ config = NoConfig
    /\ stack = <<>>
    /\ result = NoResult
    /\ hist = <<>>
    /\ reqConfig = NoConfig
    /\ prev = NoSummary
    /\ nreq = 0
    /\ handler \in Handlers
    /\ InitCounter
    /\ InitStore
    /\ mongo_uri = TRUE
    /\ InitExt

\* A caller builds the config with from_params and calls the handler's
\* fetch_report(s, config), once
Fetch(s, onfail, keys) ==
    /\ ~Running
    /\ nreq = 0
    /\ nreq' = nreq + 1
    /\ reqConfig' = from_params(onfail, keys)
    /\ Apply(Enter(<<>>, s, from_params(onfail, keys), <<>>))
    /\ UNCHANGED <<cache, now, srcVer, prev, handler, counterVars, storeVars, extVars>>

\* _handle_cache_only: the forced read of the station's table answers; no
\* record is ("No report found", 204); _post_handle is called with cache=None
HandleCacheOnly(t) ==
    /\ Running
    /\ Top.pc = "cache_only_get"
    /\ now' = t
    /\ LET c == CacheGet(t, storage_code(Top.station), TRUE)
           f == IF c.kind = "none"
                THEN [Top EXCEPT !.readAt = t, !.data = ErrorData(Err("no_report_found", ""), FALSE),
                                 !.code = NO_CONTENT]
                ELSE [Top EXCEPT !.readAt = t, !.data = c, !.code = HTTP_OK]
       IN  Apply(Continue(Callers, f, config, hist))
    /\ Len(stack') <= MaxDepth
    /\ UNCHANGED <<cache, srcVer, reqConfig, prev, nreq, handler, counterVars, storeVars, extVars>>

\* _post_handle: station_data_for ends; it raises what the aviowiki call raises
StationInfoOutcomes == {"ok", "raises"}

StationInfo(outcome) ==
    /\ Running
    /\ Top.pc = "station_info"
    /\ LET r == _post_handle(Top.data, Top.code, Top.cached, config)
       IN  IF outcome = "ok"
           THEN Apply(Deliver(Callers, Leave(Top, [r.resp EXCEPT !.info = TRUE]), r.code, config,
                              Append(hist, Returned(Top))))
           ELSE Apply(Propagate(stack, "Exception", config, Append(hist, Raised(Top))))
    /\ UNCHANGED <<cache, now, srcVer, reqConfig, prev, nreq, handler, counterVars, storeVars, extVars>>

\* app.cache.get raises
CacheGetRaises ==
    /\ Running
    /\ Top.pc \in {"cache_get", "cache_only_get"}
    /\ Apply(Propagate(stack, "Exception", config, Append(hist, Raised(Top))))
    /\ UNCHANGED <<cache, now, srcVer, reqConfig, prev, nreq, handler, counterVars, storeVars, extVars>>

\* _new_report: the awaited app.cache.update raises, nothing is stored
CacheUpdateRaises ==
    /\ Running
    /\ Top.pc = "cache_update"
    /\ Apply(Propagate(stack, "Exception", config, Append(hist, Raised(Top))))
    /\ UNCHANGED <<cache, now, srcVer, reqConfig, prev, nreq, handler, counterVars, storeVars, extVars>>

\* The awaits of fetch_report outside _call_update's try
Suspended == {"cache_get", "cache_only_get", "post_update", "cache_update", "station_info"}

\* The task running fetch_report is cancelled at such an await (a cancellation
\* inside _call_update is CallUpdate("cancelled", v)).  A cache write in
\* flight is applied by the store or not.
Cancelled(landed) ==
    /\ Running
    /\ Top.pc \in Suspended
    /\ landed => Top.pc = "cache_update"
    /\ cache' = IF landed THEN CacheUpdate(now, lookup_code(Top.station), Top.data) ELSE cache
    /\ Apply(Propagate(stack, "CancelledError", config, Append(hist, Raised(Top))))
    /\ UNCHANGED <<now, srcVer, reqConfig, prev, nreq, handler, counterVars, storeVars, extVars>>

NextHandle ==
    \/ \E s \in AllStations, onfail \in OnFail, keys \in Options : Fetch(s, onfail, keys)
    \/ \E t \in Times : StationCacheOrFetch(t)
    \/ \E t \in Times : HandleCacheOnly(t)
    \/ \E o \in SourceOutcomes, v \in Versions : CallUpdate(o, v)
    \/ \E o \in ParseOutcomes : PostUpdate(o)
    \/ \E t \in Times : NewReportCached(t)
    \/ \E o \in StationInfoOutcomes : StationInfo(o)
    \/ CacheGetRaises
    \/ CacheUpdateRaises
    \/ \E landed \in BOOLEAN : Cancelled(landed)

SpecHandle == InitHandle /\ [][NextHandle]_vars

\* Every value of the ParseConfig dataclass, as far as the flags fetch_report
\* reads go
ParseConfigs == [station : BOOLEAN, cache_on_fail : BOOLEAN, nearest_on_fail : BOOLEAN]

\* fetch_report(s, config) called once with any ParseConfig value
FetchReport(s, cfg) ==
    /\ ~Running
    /\ nreq = 0
    /\ nreq' = nreq + 1
    /\ reqConfig' = cfg
    /\ Apply(Enter(<<>>, s, cfg, <<>>))
    /\ UNCHANGED <<cache, now, srcVer, prev, handler, counterVars, storeVars, extVars>>

NextConfigs ==
    \/ \E s \in AllStations, cfg \in ParseConfigs : FetchReport(s, cfg)
    \/ \E t \in Times : StationCacheOrFetch(t)
    \/ \E t \in Times : HandleCacheOnly(t)
    \/ \E o \in SourceOutcomes, v \in Versions : CallUpdate(o, v)
    \/ \E o \in ParseOutcomes : PostUpdate(o)
    \/ \E t \in Times : NewReportCached(t)
    \/ \E o \in StationInfoOutcomes : StationInfo(o)
    \/ CacheGetRaises
    \/ CacheUpdateRaises
    \/ \E landed \in BOOLEAN : Cancelled(landed)

SpecConfigs == InitHandle /\ [][NextConfigs]_vars

----------------------------------------------------------------------------
(* ManagerHandler.fetch_reports (AirSigHandler): the reports of a manager   *)
(* are cached and fetched as one list                                       *)

\* Most reports a manager update or the cache table yields
MaxReports == 2

\* A list of n report dicts, as app.cache.all or _make_data yields them
ReportList(n, ts) == [i \in 1..n |-> Stamp(ts, Report("", i))]

\* ManagerHandler._post_handle: resp["reports"] is set when listed
Manager_post_handle(data, code, cached, cfg) ==
    LET resp == make_meta
    IN  IF code # HTTP_OK
        THEN IF cfg.cache_on_fail /\ data = <<>>
             THEN IF cached = <<>>
                  THEN [resp |-> [resp EXCEPT !.error = Err("no_reports_or_cache", "")],
                        listed |-> FALSE, reports |-> <<>>, code |-> NO_CONTENT]
                  ELSE [resp |-> [resp EXCEPT !.warning = Warn(ErrorTexts[8], "")],
                        listed |-> TRUE,
                        reports |-> [i \in DOMAIN cached |-> _format_report(cached[i])],
                        code |-> HTTP_OK]
             ELSE [resp |-> [resp EXCEPT !.error = data[1].err],
                   listed |-> FALSE, reports |-> <<>>, code |-> code]
        ELSE [resp |-> resp, listed |-> TRUE,
              reports |-> [i \in DOMAIN data |-> _format_report(data[i])], code |-> code]

\* fetch_reports returns what _post_handle returned
ManagerReturns(m, r) ==
    [m EXCEPT !.pc = "done", !.resp = r.resp, !.listed = r.listed, !.reports = r.reports,
              !.status = r.code]

\* fetch_reports' except Exception: the parsing error, with no meta
ManagerOuterError(m) ==
    [m EXCEPT !.pc = "done", !.resp = OuterError.resp, !.status = OuterError.code]

\* An exception that is no Exception leaves fetch_reports
ManagerRaised(m, exc) == [m EXCEPT !.pc = "done", !.raised = exc]

\* A caller builds the config with from_params and calls fetch_reports(config)
FetchReports(onfail, keys) ==
    /\ mgr.pc = "idle"
    /\ mgr' = [mgr EXCEPT !.pc = "cache_all", !.config = from_params(onfail, keys)]
    /\ UNCHANGED <<fetchVars, counterVars, storeVars, multiVars, tokenVars>>

AwaitOutcomes == {"ok", "raises", "cancelled"}

\* _cache_or_fetch(force_cache=True): app.cache.all ends.  An empty list
\* starts a new report, anything else is the data.
ManagerCacheOrFetch(outcome, n) ==
    /\ mgr.pc = "cache_all"
    /\ outcome # "ok" => n = 0
    /\ LET c == ReportList(n, 0)
           m == [mgr EXCEPT !.cache = c]
       IN  mgr' = CASE outcome = "raises" -> ManagerOuterError(mgr)
                    [] outcome = "cancelled" -> ManagerRaised(mgr, "CancelledError")
                    [] c = <<>> -> [m EXCEPT !.pc = "call_update"]
                    [] OTHER -> ManagerReturns([m EXCEPT !.data = c, !.code = HTTP_OK],
                                               Manager_post_handle(c, HTTP_OK, c, mgr.config))
    /\ UNCHANGED <<fetchVars, counterVars, storeVars, multiVars, tokenVars>>

\* _update_manager: one attempt of manager.async_update inside _call_update
\* ends.  After a successful one n of the raw reports parse (a report that
\* does not is reported and left out); _new_report then awaits the cache
\* write.  An error is returned as ([error[0]], error[1]).
ManagerCallUpdate(outcome, n) ==
    /\ mgr.pc = "call_update"
    /\ outcome # "ok" => n = 0
    /\ LET r == _call_update(mgr.attempt, outcome, "station loc name", "Remote Servers")
           m == [mgr EXCEPT !.log = Append(@, outcome), !.attempt = @ + 1]
       IN  mgr' = CASE r.next = "retry" -> m
                    [] r.next = "ok" ->
                          [m EXCEPT !.pc = "update_many", !.data = ReportList(n, -1), !.code = HTTP_OK]
                    [] OTHER ->
                          ManagerReturns([m EXCEPT !.data = <<r.data>>, !.code = r.code],
                                         Manager_post_handle(<<r.data>>, r.code, mgr.cache, mgr.config))
    /\ UNCHANGED <<fetchVars, counterVars, storeVars, multiVars, tokenVars>>

\* _new_report: the gathered app.cache.update_many ends
ManagerUpdateMany(outcome) ==
    /\ mgr.pc = "update_many"
    /\ mgr' = CASE outcome = "raises" -> ManagerOuterError(mgr)
                [] outcome = "cancelled" -> ManagerRaised(mgr, "CancelledError")
                [] OTHER -> ManagerReturns(mgr, Manager_post_handle(mgr.data, mgr.code, mgr.cache,
                                                                    mgr.config))
    /\ UNCHANGED <<fetchVars, counterVars, storeVars, multiVars, tokenVars>>

NextManager ==
    \/ \E onfail \in OnFail, keys \in Options : FetchReports(onfail, keys)
    \/ \E o \in AwaitOutcomes, n \in 0..MaxReports : ManagerCacheOrFetch(o, n)
    \/ \E o \in SourceOutcomes, n \in 0..MaxReports : ManagerCallUpdate(o, n)
    \/ \E o \in AwaitOutcomes : ManagerUpdateMany(o)

SpecManager == Init /\ [][NextManager]_vars

----------------------------------------------------------------------------
(* MultiReport.get: one ParseConfig object, one fetch_report coroutine per  *)
(* location, all gathered.  The coroutines run interleaved at their awaits  *)
(* and share the config object.                                             *)

\* The location lists of the model
Locations == {l \in [1..2 -> Stations] : l[1] # l[2]}

\* The failures of the source and of the parser a gathered call can meet
MultiSourceOutcomes == {"ok", "not_found", "timeout"}

MultiParseOutcomes == {"ok", "parse_error"}

\* A step that leaves the coroutine suspended at an await of activation f
Suspend(stk, f, cfg, h) ==
    [stack |-> Append(stk, f), config |-> cfg, done |-> FALSE, resp |-> NoResp, code |-> HTTP_OK,
     hist |-> h, raised |-> ""]

\* What a coroutine is: its activations, what they did and its result
Coroutine(ns) ==
    [stack |-> ns.stack, hist |-> ns.hist,
     result |-> [resp |-> ns.resp, code |-> IF ns.done THEN ns.code ELSE 0, done |-> ns.done,
                 raised |-> ns.raised]]

\* The i-th coroutine goes on to its next await or returns
Resume(i, ns) ==
    /\ calls' = [calls EXCEPT ![i] = Coroutine(ns)]
    /\ config' = ns.config
    /\ Len(ns.stack) <= MaxDepth

Waiting(i, pc) ==
    /\ i \in DOMAIN calls
    /\ calls[i].stack # <<>>
    /\ Last(calls[i].stack).pc = pc

\* get: config = ParseConfig.from_params(...), then fetch_report(loc, config)
\* for each location; gather starts the coroutines in order and each runs to
\* its first await
MultiGet(locs, onfail) ==
    /\ calls = <<>>
    /\ reqConfig' = from_params(onfail, {})
    /\ config' = from_params(onfail, {})
    /\ calls' = [i \in DOMAIN locs |-> Coroutine(Enter(<<>>, locs[i], from_params(onfail, {}), <<>>))]
    /\ UNCHANGED <<cache, now, srcVer, stack, result, hist, prev, nreq, handler,
                   counterVars, storeVars, mgrVars, tokenVars>>

\* _station_cache_or_fetch of the i-th coroutine: the cache read answers
MultiCacheOrFetch(i, t) ==
    /\ Waiting(i, "cache_get")
    /\ now' = t
    /\ LET stk == calls[i].stack
           c == CacheGet(t, storage_code(Last(stk).station), force_cache)
           f == [Last(stk) EXCEPT !.cached = c, !.readAt = t]
       IN  IF c.kind = "none" \/ has_expired(t, c.ts, MaxAge)
           THEN Resume(i, Suspend(Front(stk), [f EXCEPT !.pc = "call_update"], config, calls[i].hist))
           ELSE Resume(i, Continue(Front(stk), [f EXCEPT !.data = c, !.code = HTTP_OK], config,
                                   calls[i].hist))
    /\ UNCHANGED <<cache, srcVer, stack, result, hist, reqConfig, prev, nreq, handler,
                   counterVars, storeVars, mgrVars, tokenVars>>

\* One attempt of the source operation of the i-th coroutine ends
MultiCallUpdate(i, outcome, v) ==
    /\ Waiting(i, "call_update")
    /\ srcVer' = v
    /\ outcome # "ok" => v = srcVer
    /\ LET stk == calls[i].stack
           top == Last(stk)
           r == _call_update(top.attempt, outcome, lookup_code(top.station), SourceName)
           f == [top EXCEPT !.log = Append(@, outcome), !.attempt = @ + 1]
       IN  CASE r.next = "retry" -> Resume(i, Suspend(Front(stk), f, config, calls[i].hist))
             [] r.next = "ok" ->
                    Resume(i, Suspend(Front(stk),
                                      [f EXCEPT !.pc = "post_update",
                                                !.data = Report(lookup_code(top.station), v)],
                                      config, calls[i].hist))
             [] OTHER ->
                    Resume(i, Continue(Front(stk), [f EXCEPT !.data = r.data, !.code = r.code], config,
                                       calls[i].hist))
    /\ UNCHANGED <<cache, now, stack, result, hist, reqConfig, prev, nreq, handler,
                   counterVars, storeVars, mgrVars, tokenVars>>

\* parser._post_update() of the i-th coroutine ends
MultiPostUpdate(i, outcome) ==
    /\ Waiting(i, "post_update")
    /\ LET stk == calls[i].stack
           r == _post_update(outcome, Last(stk).station)
           f == [Last(stk) EXCEPT !.parse = outcome]
       IN  IF r.next = "ok"
           THEN Resume(i, Suspend(Front(stk), [f EXCEPT !.pc = "cache_update"], config, calls[i].hist))
           ELSE Resume(i, Continue(Front(stk), [f EXCEPT !.data = r.data, !.code = r.code], config,
                                   calls[i].hist))
    /\ UNCHANGED <<cache, now, srcVer, stack, result, hist, reqConfig, prev, nreq, handler,
                   counterVars, storeVars, mgrVars, tokenVars>>

\* The cache write of the i-th coroutine ends and its report is returned
MultiNewReportCached(i, t) ==
    /\ Waiting(i, "cache_update")
    /\ now' = t
    /\ LET stk == calls[i].stack
           top == Last(stk)
       IN  /\ cache' = CacheUpdate(t, lookup_code(top.station), top.data)
           /\ Resume(i, Continue(Front(stk),
                                 [top EXCEPT !.data = Stamp(t, top.data), !.code = HTTP_OK, !.wrote = TRUE],
                                 config, calls[i].hist))
    /\ UNCHANGED <<srcVer, stack, result, hist, reqConfig, prev, nreq, handler,
                   counterVars, storeVars, mgrVars, tokenVars>>

NextMulti ==
    \/ \E locs \in Locations, onfail \in OnFail : MultiGet(locs, onfail)
    \/ \E i \in 1..2, t \in Times : MultiCacheOrFetch(i, t)
    \/ \E i \in 1..2, o \in MultiSourceOutcomes, v \in Versions : MultiCallUpdate(i, o, v)
    \/ \E i \in 1..2, o \in MultiParseOutcomes : MultiPostUpdate(i, o)
    \/ \E i \in 1..2, t \in Times : MultiNewReportCached(i, t)

SpecMulti == Init /\ [][NextMulti]_vars

----------------------------------------------------------------------------
(* TokenCountCache (avwx_api/token.py): the DelayedCounter that caches the  *)
(* data of a token and counts its calls.  A request calls get, and add once *)
(* get has returned the token's data; other requests run at its awaits and  *)
(* between the two calls.                                                   *)

TokenLimits == {NoLimit, 1, 2}

\* {"data": data, "count": count, "total": total}
TokenItem(count, total) == [state |-> "item", count |-> count, total |-> total]

\* TokenCountCache.update: gather_data swaps the map for an empty one; every
\* item of the old map that is not None is put on the queue as (user, count)
TokenUpdate(d, q) ==
    LET present == {t \in Tokens : d[t].state = "item"}
        RECURSIVE Jobs(_)
        Jobs(ts) == IF ts = {} THEN <<>>
                    ELSE LET t == CHOOSE x \in ts : TRUE
                         IN  <<[token |-> t, count |-> d[t].count]>> \o Jobs(ts \ {t})
    IN  [data |-> [t \in Tokens |-> Missing], queue |-> q \o Jobs(present), due |-> FALSE]

\* The prelude of a counted call: a flush when the interval has elapsed.
\* gather_data has cleared `locked` before it returns, so the wait for the
\* flag never suspends.
_pre_add(d, q, isDue) == IF isDue THEN TokenUpdate(d, q) ELSE [data |-> d, queue |-> q, due |-> isDue]

\* The except KeyError branch of get up to its first await
BeginFetch(req) == [req EXCEPT !.pc = "fetch_data", !.fetches = @ + 1]

\* get(token) up to its first await or its return
TokenGet(r, tok) ==
    /\ treqs[r].pc = "idle"
    /\ LET u == _pre_add(tdata, tqueue, tdue)
           req == [treqs[r] EXCEPT !.token = tok]
       IN  /\ tqueue' = u.queue
           /\ tdue' = u.due
           /\ CASE u.data[tok].state = "missing" ->
                      /\ tdata' = [u.data EXCEPT ![tok] = Marker]
                      /\ treqs' = [treqs EXCEPT ![r] = BeginFetch(req)]
                [] u.data[tok].state = "none" ->
                      /\ tdata' = u.data
                      /\ treqs' = [treqs EXCEPT ![r] = [req EXCEPT !.pc = "sleep", !.waited = TRUE]]
                [] OTHER ->
                      /\ tdata' = u.data
                      /\ treqs' = [treqs EXCEPT ![r] = [req EXCEPT !.pc = "got", !.got = "data"]]
    /\ UNCHANGED <<tusage, tdb, fetchVars, counterVars, storeVars, mgrVars, multiVars>>

\* get: the sleep of the wait loop ends and the item is read again.  While it
\* is None the loop sleeps again; a missing key is a KeyError, caught by the
\* except branch of the same try.
TokenWake(r) ==
    /\ treqs[r].pc = "sleep"
    /\ LET e == tdata[treqs[r].token]
       IN  CASE e.state = "missing" ->
                    /\ tdata' = [tdata EXCEPT ![treqs[r].token] = Marker]
                    /\ treqs' = [treqs EXCEPT ![r] = BeginFetch(@)]
             [] e.state = "item" ->
                    /\ tdata' = tdata
                    /\ treqs' = [treqs EXCEPT ![r] = [@ EXCEPT !.pc = "got", !.got = "data"]]
             [] OTHER -> FALSE
    /\ UNCHANGED <<tdue, tqueue, tusage, tdb, fetchVars, counterVars, storeVars, mgrVars, multiVars>>

FetchOutcomes == {"ok", "raises"}

\* get: _fetch_token_data ends.  No data: the key is deleted (a missing key
\* is passed over) and get returns None.  An exception leaves get.
TokenDataFetched(r, outcome) ==
    /\ treqs[r].pc = "fetch_data"
    /\ CASE outcome = "raises" ->
                /\ treqs' = [treqs EXCEPT ![r] = [@ EXCEPT !.pc = "done", !.got = "raised"]]
                /\ tdata' = tdata
         [] ~tdb.known ->
                /\ treqs' = [treqs EXCEPT ![r] = [@ EXCEPT !.pc = "done", !.got = "none"]]
                /\ tdata' = [tdata EXCEPT ![treqs[r].token] = Missing]
         [] OTHER ->
                /\ treqs' = [treqs EXCEPT ![r] = [@ EXCEPT !.pc = "fetch_usage"]]
                /\ tdata' = tdata
    /\ UNCHANGED <<tdue, tqueue, tusage, tdb, fetchVars, counterVars, storeVars, mgrVars, multiVars>>

\* get: _fetch_token_usage ends; the item is stored and the data returned
TokenUsageFetched(r) ==
    /\ treqs[r].pc = "fetch_usage"
    /\ tdata' = [tdata EXCEPT ![treqs[r].token] = TokenItem(0, tusage)]
    /\ treqs' = [treqs EXCEPT ![r] = [@ EXCEPT !.pc = "got", !.got = "data"]]
    /\ UNCHANGED <<tdue, tqueue, tusage, tdb, fetchVars, counterVars, storeVars, mgrVars, multiVars>>

\* add's answer for an item: limit is None, or limit >= total + count
WithinLimit(limit, total, count) == limit = NoLimit \/ limit >= total + count

\* What add returns or raises
AddResult(b) == IF b THEN "True" ELSE "False"

\* add(token) of a request whose get returned the token's data.
\* self._data[token]["count"] += 1 raises KeyError for a missing key, which
\* add answers with False, and TypeError for a None item, which it does not
\* catch.
TokenAdd(r) ==
    /\ treqs[r].pc = "got"
    /\ LET tok == treqs[r].token
           e == tdata[tok]
       IN  CASE e.state = "missing" ->
                    /\ tdata' = tdata
                    /\ treqs' = [treqs EXCEPT ![r] = [@ EXCEPT !.pc = "done", !.added = "False"]]
             [] e.state = "none" ->
                    /\ tdata' = tdata
                    /\ treqs' = [treqs EXCEPT ![r] = [@ EXCEPT !.pc = "done", !.added = "TypeError"]]
             [] OTHER ->
                    /\ tdata' = [tdata EXCEPT ![tok] = TokenItem(e.count + 1, e.total)]
                    /\ treqs' = [treqs EXCEPT ![r] =
                                    [@ EXCEPT !.pc = "done", !.sum = e.total + e.count + 1,
                                              !.added = AddResult(WithinLimit(tdb.limit, e.total,
                                                                              e.count + 1))]]
    /\ UNCHANGED <<tdue, tqueue, tusage, tdb, fetchVars, counterVars, storeVars, mgrVars, multiVars>>

\* time.time() passes update_at
TokenIntervalElapses ==
    /\ ~tdue
    /\ tdue' = TRUE
    /\ UNCHANGED <<tdata, tqueue, tusage, treqs, tdb, fetchVars, counterVars, storeVars, mgrVars,
                   multiVars>>

\* A worker takes a job and adds its count to the user's usage of the day
TokenWorker ==
    /\ tqueue # <<>>
    /\ tusage' = tusage + Head(tqueue).count
    /\ tqueue' = Tail(tqueue)
    /\ UNCHANGED <<tdata, tdue, treqs, tdb, fetchVars, counterVars, storeVars, mgrVars, multiVars>>

\* Any token table: the token is in it or not, with a limit or none
InitTokenTable ==
    /\ InitFetch /\ InitCounter /\ InitStore /\ mongo_uri = TRUE /\ InitManager /\ InitMulti
    /\ tdata = [t \in Tokens |-> Missing]
    /\ tdue = FALSE
    /\ tqueue = <<>>
    /\ tusage = 0
    /\ treqs = [r \in TokenRequests |-> NoTokenRequest]
    /\ tdb \in [known : BOOLEAN, limit : TokenLimits]

NextToken ==
    \/ \E r \in TokenRequests, tok \in Tokens : TokenGet(r, tok)
    \/ \E r \in TokenRequests : TokenWake(r)
    \/ \E r \in TokenRequests, o \in FetchOutcomes : TokenDataFetched(r, o)
    \/ \E r \in TokenRequests : TokenUsageFetched(r)
    \/ \E r \in TokenRequests : TokenAdd(r)
    \/ TokenIntervalElapses
    \/ TokenWorker

SpecToken == InitTokenTable /\ [][NextToken]_vars

----------------------------------------------------------------------------
(* Properties of the fetch orchestration *)

Done == result.done

Retryable == {"timeout", "source_error"}

\* Every activation of the running or last request, as the model records it
Frames == {stack[i] : i \in DOMAIN stack} \cup {hist[i] : i \in DOMAIN hist}

\* The activation whose _post_handle produced the response
Final == hist[Len(hist)]

AllIn(q, S) == \A i \in DOMAIN q : q[i] \in S

StaleAtRead(f) == f.cached.kind = "report" /\ f.readAt - f.cached.ts > 2

FreshAtRead(f) == f.cached.kind = "report" /\ f.readAt - f.cached.ts <= 2

\* C1: Cache-on-fail fallback.  A request that read a stale record and whose
\* live fetch failed returns, with cache_on_fail set, 200 with the stale
\* record as body and a warning in meta; with neither fallback flag set it
\* returns the status of the failure.
C1_CacheOnFail ==
    (Done /\ hist # <<>> /\ StaleAtRead(hist[1]) /\ hist[1].code # HTTP_OK) =>
        /\ reqConfig.cache_on_fail =>
              /\ result.code = 200
              /\ result.resp.body.kind = "report"
              /\ result.resp.body.station = hist[1].cached.station
              /\ result.resp.body.ver = hist[1].cached.ver
              /\ result.resp.meta
              /\ result.resp.warning # NoWarn
        /\ (~reqConfig.cache_on_fail /\ ~reqConfig.nearest_on_fail) =>
              /\ result.code = hist[1].code
              /\ result.code \in {400, 500, 502, 503}

C1_Witness ==
    /\ Done /\ hist # <<>> /\ StaleAtRead(hist[1]) /\ hist[1].code = 502
    /\ reqConfig.cache_on_fail
    /\ result.code = 200 /\ result.resp.warning # NoWarn

\* C2: Fallback termination.  Whatever the nearest station's fetch does, a
\* request has at most two activations of fetch_report, one inside the other
\* at most.
Activations == Len(hist) + (IF Running THEN 1 ELSE 0)

C2_FallbackTermination == Len(stack) <= 2 /\ Activations <= 2

C2_Witness ==
    /\ Done /\ reqConfig.nearest_on_fail /\ Len(hist) = 2
    /\ Final.code # HTTP_OK /\ result.code # HTTP_OK

TimeoutsThenOk(log) ==
    /\ log # <<>>
    /\ Last(log) = "ok"
    /\ AllIn(Front(log), {"timeout"})

AbortStatus(o) ==
    CASE o = "connection_error" -> 502
      [] o = "invalid_request" -> 400
      [] o = "unknown" -> 500
      [] o = "not_found" -> 400
      [] OTHER -> 0

Aborting == {"connection_error", "invalid_request", "unknown", "not_found"}

C5_NonRetryableAbort ==
    \A f \in Frames :
        /\ f.log # <<>> => AllIn(Front(f.log), Retryable)
        /\ (f.log # <<>> /\ Last(f.log) \in Aborting) =>
              /\ f.pc # "call_update"
              /\ f.code = AbortStatus(Last(f.log))
              /\ f.data.kind = "error"

C5_Witness ==
    /\ Done /\ Len(hist) = 1
    /\ hist[1].log = <<"timeout", "connection_error">>
    /\ result.code = 502

\* C8: Fresh cache hit.  An activation whose cache read returned a record
\* that has not expired never invokes the source and never writes the cache,
\* and it answers with that record and 200.
C8_FreshCacheHit ==
    \A f \in Frames :
        FreshAtRead(f) =>
            /\ f.log = <<>> /\ f.attempt = 0
            /\ ~f.wrote
            /\ f.pc = "returned"
            /\ Done /\ f = Final
            /\ f.data = f.cached /\ f.code = 200
            /\ result.code = 200
            /\ result.resp.body.station = f.cached.station
            /\ result.resp.body.ver = f.cached.ver

C8_Witness ==
    /\ Done /\ Len(hist) = 1 /\ FreshAtRead(hist[1])
    /\ hist[1].readAt > hist[1].cached.ts
    /\ result.code = 200

C10_NearestOnFail ==
    (/\ Done /\ reqConfig.nearest_on_fail /\ Len(hist) = 2
     /\ hist[2].code = HTTP_OK) =>
        /\ result.code = 200
        /\ hist[2].station = nearby(hist[1].station)[1]
        /\ result.resp.body.kind = "report"
        /\ result.resp.body.station = hist[2].station
        /\ result.resp.warning.arg = hist[1].station
        /\ result.resp.warning.id = "no_report_found_at"

C10_Witness ==
    /\ Done /\ reqConfig.nearest_on_fail /\ Len(hist) = 2
    /\ hist[1].station = "KJFK"
    /\ hist[2].code = HTTP_OK /\ hist[2].log = <<"ok">>
    /\ result.code = 200 /\ result.resp.body.station = "KLGA"
    /\ result.resp.warning.arg = "KJFK"

\* C11: Cache-on-fail with nothing cached.  A request with cache_on_fail whose
\* fetch failed and whose cache read had returned no record answers 204 with
\* the "no report or cache" error and a meta block.
C11_NothingCached ==
    (/\ Done /\ result.raised = "" /\ hist # <<>>
     /\ reqConfig.cache_on_fail
     /\ Final.pc = "returned" /\ Final.code # HTTP_OK
     /\ Final.cached.kind = "none") =>
        /\ result.code = 204
        /\ result.resp.error = [id |-> "no_report_or_cache", arg |-> ""]
        /\ result.resp.meta
        /\ result.resp.body.kind = "none"

C11_Witness ==
    /\ Done /\ handler = "report" /\ reqConfig.cache_on_fail
    /\ Len(hist) = 1 /\ hist[1].station = "KJFK"
    /\ hist[1].cached.kind = "none" /\ hist[1].readAt >= 0
    /\ hist[1].log = <<"timeout", "timeout", "timeout">> /\ hist[1].code = 502
    /\ result.code = 204 /\ result.resp.meta

\* C12: No fallback configured.  A request with neither fallback flag whose
\* fetch step failed answers with that step's status and its payload (the
\* error message, and the raw report when it has one) next to the meta
\* block, with no report body and no warning.
C12_NoFallback ==
    (/\ Done /\ result.raised = "" /\ hist # <<>>
     /\ ~reqConfig.cache_on_fail /\ ~reqConfig.nearest_on_fail
     /\ Final.pc = "returned" /\ Final.code # HTTP_OK) =>
        /\ Len(hist) = 1
        /\ result.code = Final.code
        /\ Final.data.kind = "error"
        /\ result.resp.error = Final.data.err
        /\ result.resp.raw = Final.data.raw
        /\ result.resp.body.kind = "none"
        /\ result.resp.warning = NoWarn /\ result.resp.topWarning = NoWarn

C12_Witness ==
    /\ Done /\ ~reqConfig.cache_on_fail /\ ~reqConfig.nearest_on_fail
    /\ Len(hist) = 1 /\ hist[1].parse = "parse_error"
    /\ hist[1].cached.kind = "report"
    /\ result.code = 500 /\ result.resp.raw
    /\ result.resp.error.id = "could_not_parse"

\* C13: Exception containment.  No exception raised at a step of fetch_report
\* (the cache read, the cache write, the fallback resolution, the station
\* enrichment) leaves fetch_report: every call returns a DataStatus.
\* (A cancellation is C16's.)
C13_ExceptionContainment ==
    Done => result.raised \notin {"Exception", "IndexError"}

\* C14: Response envelope.  Every dict fetch_report returns has a meta block,
\* and every result with a status other than 200 has an error.
C14_Envelope ==
    (Done /\ result.raised = "") =>
        /\ result.resp.meta
        /\ result.code # 200 => result.resp.error # NoErr

\* C15: Cache write off the critical path.  A request whose fetch and parse
\* succeeded answers 200 with the new report also when the cache write that
\* follows fails.
C15_WriteOffCriticalPath ==
    (/\ Done /\ hist # <<>>
     /\ Final.parse = "ok" /\ Final.raisedAt = "cache_update"
     /\ result.raised # "CancelledError") =>
        /\ result.raised = ""
        /\ result.code = 200
        /\ result.resp.body.kind = "report"

\* C16: Cancellation conversion.  A cancellation delivered to fetch_report at
\* any of its awaits never leaves it as a CancelledError, and the call it
\* interrupts answers 503 "server rebooting".
C16_CancellationConversion ==
    (Done /\ hist # <<>>) =>
        /\ result.raised # "CancelledError"
        /\ (Final.log # <<>> /\ Last(Final.log) = "cancelled") =>
              /\ result.code = 503
              /\ result.resp.error.id = "server_rebooting"

\* C17: No-data classification.  A request with neither fallback flag whose
\* source answered that it has no report for the station returns 204.
C17_NoData ==
    (/\ Done /\ hist # <<>>
     /\ ~reqConfig.cache_on_fail /\ ~reqConfig.nearest_on_fail
     /\ Final.pc = "returned"
     /\ Final.log # <<>> /\ Last(Final.log) = "not_found") =>
        result.code = 204

\* C18: Parse failure.  When the source operation succeeded and the parse
\* that follows raised something other than BadStation, the fetch step ends
\* with 500, the parsing error and the raw report; the source is not invoked
\* again and the cache is not written; with no fallback flag that is the
\* result of fetch_report.
C18_ParseFailure ==
    \A f \in Frames :
        f.parse = "parse_error" =>
            /\ Last(f.log) = "ok" /\ f.attempt = Len(f.log)
            /\ f.pc \notin {"call_update", "post_update", "cache_update"}
            /\ ~f.wrote
            /\ f.code = 500
            /\ f.data.err = [id |-> "could_not_parse", arg |-> ""]
            /\ f.data.raw
            /\ (Done /\ f = Final /\ ~reqConfig.cache_on_fail /\ ~reqConfig.nearest_on_fail) =>
                  /\ result.code = 500
                  /\ result.resp.error.id = "could_not_parse"
                  /\ result.resp.raw

C18_Witness ==
    /\ Done /\ Len(hist) = 1
    /\ hist[1].log = <<"timeout", "ok">> /\ hist[1].parse = "parse_error"
    /\ ~reqConfig.cache_on_fail /\ ~reqConfig.nearest_on_fail
    /\ cache[hist[1].station].kind = "none"
    /\ result.code = 500 /\ result.resp.raw

\* C19: Non-reporting location.  A request for the station that is not
\* cache-only and does not publish reports returns at once 204 with the
\* "does not publish reports" error: no activation reads the cache, invokes
\* the source or enters a fallback, whatever the flags.
C19_NonReporting ==
    /\ \A f \in Frames : f.station = "K00A" => f.pc = "no_reports"
    /\ (Done /\ hist # <<>> /\ hist[1].station = "K00A") =>
          /\ Len(hist) = 1
          /\ hist[1].readAt = -1 /\ hist[1].log = <<>> /\ ~hist[1].wrote
          /\ result.raised = ""
          /\ result.code = 204
          /\ result.resp.error = [id |-> "does_not_publish", arg |-> "K00A"]
          /\ result.resp.body.kind = "none"

C19_Witness ==
    /\ Done /\ Len(hist) = 1 /\ hist[1].station = "K00A"
    /\ reqConfig.nearest_on_fail /\ reqConfig.station
    /\ result.code = 204

\* C20: Cache-only short-circuit.  A request of ReportHandler for a
\* cache-only station never invokes the Report Source and returns 204 when
\* the station's table has no record, 200 with the record otherwise.
C20_CacheOnly ==
    (/\ Done /\ hist # <<>> /\ result.raised = ""
     /\ handler = "report" /\ hist[1].station \in cache_only) =>
        /\ \A f \in Frames : f.log = <<>>
        /\ IF cache[hist[1].station].kind = "none"
           THEN result.code = 204
           ELSE /\ result.code = 200
                /\ result.resp.body.station = hist[1].station

C32_PirepCacheFallback ==
    (/\ Done /\ handler = "pirep" /\ reqConfig.cache_on_fail
     /\ result.raised = ""
     /\ Len(hist) = 1 /\ hist[1].code # HTTP_OK
     /\ cache[storage_code(hist[1].station)].kind = "report") =>
        /\ result.code = 200
        /\ result.resp.body.kind = "report"
        /\ result.resp.body.station = cache[storage_code(hist[1].station)].station
        /\ result.resp.warning # NoWarn

----------------------------------------------------------------------------
(* Properties of the report manager *)

\* The fetch of the finished fetch_reports call failed
ManagerFetchFailed == mgr.pc = "done" /\ mgr.raised = "" /\ mgr.code # HTTP_OK /\ mgr.log # <<>>

\* C33 (manager cache fallback): a fetch_reports call with cache_on_fail whose
\* fetch failed returns the cached reports with 200 and the out-of-date
\* warning when the cache holds reports, and 204 when it holds none.
C33_ManagerCacheFallback ==
    (ManagerFetchFailed /\ mgr.config.cache_on_fail) =>
        IF mgr.cache # <<>>
        THEN /\ mgr.status = HTTP_OK
             /\ mgr.listed
             /\ mgr.reports = [i \in DOMAIN mgr.cache |-> _format_report(mgr.cache[i])]
             /\ mgr.resp.warning # NoWarn
        ELSE mgr.status = NO_CONTENT

----------------------------------------------------------------------------
(* Properties of the multi-station request *)

\* Every gathered coroutine has returned
Gathered == calls # <<>> /\ \A i \in DOMAIN calls : calls[i].result.done

\* C34 (independent fallback in multi-station requests): in a request made
\* with nearest_on_fail every gathered fetch_report call whose own station
\* failed went on to the nearest station, whatever the order the calls ran in.
C34_IndependentFallback ==
    (Gathered /\ reqConfig.nearest_on_fail) =>
        \A i \in DOMAIN calls :
            calls[i].hist[1].code # HTTP_OK => Len(calls[i].hist) >= 2

----------------------------------------------------------------------------
(* Properties of the token usage cache *)

\* C35 (token increment after lookup): a request that got the token's data
\* from get and then called add is answered True when the token has no limit
\* or total + count is within it, and False only when the limit is exceeded,
\* whatever ran between and during the two calls.
C35_IncrementAfterLookup ==
    \A r \in TokenRequests :
        (treqs[r].pc = "done" /\ treqs[r].got = "data") =>
            /\ tdb.limit = NoLimit => treqs[r].added = "True"
            /\ (treqs[r].sum # -1 /\ treqs[r].sum <= tdb.limit) => treqs[r].added = "True"
            /\ treqs[r].added = "False" => (treqs[r].sum # -1 /\ treqs[r].sum > tdb.limit)

\* The requests whose get is fetching the token
Fetching(tok) == {r \in TokenRequests : treqs[r].token = tok /\ treqs[r].pc \in {"fetch_data", "fetch_usage"}}

\* C36 (single-flight token lookup): of the get calls for one token that run
\* at the same time at most one is fetching it, and a call that waited on the
\* marker never fetches: it returns the data the fetching call stored.
C36_SingleFlight ==
    /\ \A tok \in Tokens : Cardinality(Fetching(tok)) <= 1
    /\ \A r \in TokenRequests : treqs[r].waited => treqs[r].fetches = 0

----------------------------------------------------------------------------
(* Properties of the delayed counter *)

\* C6: Counter drain on shutdown.  Once clean_queue has completed, the
\* Metering Store holds, for every key, as many counts as add was called
\* for it.
C6_DrainOnShutdown ==
    shutdown = "done" => \A k \in Keys : persisted[k] = added[k]

\* The jobs a step appends to the queue
NewJobs == SubSeq(queue', Len(queue) + 1, Len(queue'))

JobsFor(jobs, k) == {i \in DOMAIN jobs : MakeKey(jobs[i].icao, jobs[i].request_type) = k}

\* C7: Counter batching.  A flush that follows N add calls for a key, with no
\* flush in between, puts exactly one job for that key on the queue, with
\* count N, and leaves nothing of those calls in the in-memory map.
C7_Batching ==
    [][Len(queue') > Len(queue) =>
          /\ SubSeq(queue', 1, Len(queue)) = queue
          /\ \A k \in Keys :
                IF sinceFlush[k] > 0
                THEN /\ Cardinality(JobsFor(NewJobs, k)) = 1
                     /\ \A i \in JobsFor(NewJobs, k) : NewJobs[i].count = sinceFlush[k]
                ELSE JobsFor(NewJobs, k) = {}
          /\ \A i \in DOMAIN data_' : data_'[i].count = added'[data_'[i].key] - added[data_'[i].key]
    ]_vars

C7_Witness ==
    /\ queue # <<>>
    /\ queue[1].count = 3
    /\ data_ = <<>>

\* C25 (workers never fail): while the application serves or waits in
\* clean_queue, each of the 3 workers is running: waiting on the queue or
\* awaiting update_one, whatever writes of the Metering Store have failed.
C25_WorkersNeverFail ==
    shutdown # "done" => \A w \in Workers : workers[w].state \in {"waiting", "updating"}

\* C26 (shutdown terminates): once clean_queue has been invoked it completes,
\* under fair scheduling, after every history of adds, flushes and failures of
\* the Metering Store.
C26_ShutdownTerminates == (shutdown = "waiting") ~> (shutdown = "done")

\* C27 (shutdown ordering): the step of clean_queue that cancels the workers
\* comes after the final flush (the in-memory map is empty) and finds no job
\* outstanding: none on the queue and none taken by a worker and not applied.
C27_ShutdownOrdering ==
    [][(shutdown # "done" /\ shutdown' = "done") =>
          /\ shutdown = "waiting"
          /\ data_ = <<>>
          /\ queue = <<>>
          /\ \A w \in Workers : workers[w].state # "updating"
    ]_vars

\* C28 (timer-driven persistence): the counts add has accumulated for a key
\* are eventually all in the Metering Store once the flush interval elapses,
\* with no further add and no shutdown needed.
C28_TimerDrivenPersistence ==
    \A k \in Keys : (added[k] > persisted[k]) ~> (persisted[k] = added[k] \/ shutdown # "serving")

\* The counts for key k that a sequence of jobs carries
RECURSIVE CountIn(_, _)
CountIn(jobs, k) ==
    IF jobs = <<>> THEN 0
    ELSE (IF MakeKey(Head(jobs).icao, Head(jobs).request_type) = k THEN Head(jobs).count ELSE 0)
         + CountIn(Tail(jobs), k)

\* The jobs the workers have taken from the queue and not applied yet
Held == [w \in 1..NumWorkers |-> workers[w].job]

\* C29 (flush exclusion): whenever control is with the event loop the locked
\* flag is false, so no add waits on it, and every increment of add is in
\* exactly one place: the current in-memory map, one queued job, one job a
\* worker holds, or the store; none is lost with a swapped-out map and none
\* is counted twice.
C29_FlushExclusion ==
    /\ ~locked
    /\ shutdown # "done" =>
           \A k \in Keys : added[k] = CountIn(JobsOf(data_), k) + CountIn(queue, k)
                                      + CountIn(Held, k) + persisted[k]

\* An add for a key after a flush, while the earlier batch for that key is
\* still queued and another one has been applied
C29_Witness ==
    \E k \in Keys :
        /\ CountIn(JobsOf(data_), k) >= 1
        /\ CountIn(queue, k) >= 1
        /\ persisted[k] >= 1

\* The key an add step counted
AddedKey == CHOOSE k \in Keys : added'[k] # added[k]

\* C31 (add-triggered flush ordering): an add called after the flush interval
\* has elapsed first puts one job per entry accumulated before it on the
\* queue, then counts itself in the new map, which holds only this increment;
\* update_at is moved one interval on (the interval is no longer elapsed), and
\* an add called before the interval has elapsed puts nothing on the queue.
C31_AddTriggeredFlush ==
    [][(added' # added) =>
          IF due
          THEN /\ queue' = queue \o JobsOf(data_)
               /\ data_' = <<[key |-> AddedKey, count |-> 1]>>
               /\ ~due'
          ELSE /\ queue' = queue
               /\ ~due'
    ]_vars

\* An add has flushed two earlier increments and is alone in the new map
C31_Witness ==
    /\ shutdown = "serving"
    /\ ~due
    /\ Len(queue) = 1 /\ queue[1].count = 2
    /\ Len(data_) = 1 /\ data_[1].count = 1
    /\ Sum(added) = 3

----------------------------------------------------------------------------
(* Properties of the document cache *)

Outcomes(log) == [i \in DOMAIN log |-> log[i].outcome]

GetReturned == op.name = "get" /\ op.status = "returned"

UpdateCalled == op.name = "update" /\ op.status \in {"awaiting", "returned", "raised"}

\* Ages at which a document is within max-age (2 minutes)
FreshAges == 0..2

\* C21 (cache freshness): a Cache.get whose reads the store answered and that
\* returns, returns with force=False the document when a read found it at
\* most max-age old (now - t <= 2) and none when every read found it older
\* (now - t > 2) or missing; with force=True it returns after one read what
\* the store holds, whatever its age, and none only when there is no document.
\* With no MONGO_URI it returns none.
C21_CacheFreshness ==
    GetReturned =>
        /\ ~mongo_uri => ~op.ret.present /\ op.log = <<>>
        /\ (mongo_uri /\ AllIn(Outcomes(op.log), {"ok"})) =>
               IF op.force
               THEN /\ Len(op.log) = 1
                    /\ op.ret.present = stored.present
                    /\ op.ret.timestamp = stored.timestamp
               ELSE /\ (\E i \in DOMAIN op.log : op.log[i].age \in FreshAges) =>
                           /\ op.ret.present
                           /\ op.ret.timestamp = stored.timestamp
                           /\ op.log[Len(op.log)].age \in FreshAges
                    /\ (\A i \in DOMAIN op.log : op.log[i].age \notin FreshAges) =>
                           /\ ~op.ret.present
                           /\ Len(op.log) = CacheRetries

\* An unforced get returned a document exactly max-age old
C21_Witness ==
    /\ GetReturned
    /\ ~op.force
    /\ op.log = <<Attempt("ok", 2)>>
    /\ op.ret.present

Caught == {"ok", "operation_failure", "auto_reconnect"}

LastOutcome == op.log[Len(op.log)].outcome

\* C22 (cache write retry): a Cache.update that has escaped and stamped its
\* data issues update_one at most 5 times; every attempt but the last ended
\* with a reconnect-class error; a success is the last attempt and its
\* document is what the store holds; a permanent operation failure is the
\* last attempt too; and when every attempt ended in one of these three ways
\* the call goes on or has returned, it never raises.
C22_CacheWriteRetry ==
    (op.name = "update" /\ op.attempt >= 1) =>
        /\ op.attempt <= 5
        /\ Len(op.log) <= 5
        /\ \A i \in 1..(Len(op.log) - 1) : op.log[i].outcome = "auto_reconnect"
        /\ op.status = "awaiting" =>
               /\ op.attempt = Len(op.log) + 1
               /\ AllIn(Outcomes(op.log), {"auto_reconnect"})
        /\ (op.log # <<>> /\ LastOutcome = "ok") =>
               op.status = "returned" /\ stored = op.doc
        /\ (op.log # <<>> /\ LastOutcome = "operation_failure") => op.status = "returned"
        /\ (Len(op.log) = 5 /\ LastOutcome = "auto_reconnect") => op.status = "returned"
        /\ AllIn(Outcomes(op.log), Caught) => op.status \in {"awaiting", "returned"}

\* An update succeeded on its fifth attempt, after four reconnect errors
C22_Witness ==
    /\ op.name = "update"
    /\ op.status = "returned"
    /\ Outcomes(op.log) = <<"auto_reconnect", "auto_reconnect", "auto_reconnect",
                            "auto_reconnect", "ok">>
    /\ stored = op.doc

\* C23 (cache read degradation): a Cache.get issues find_one at most 5 times;
\* when every attempt ended with a reconnect-class error it goes on until the
\* fifth and then returns none; an attempt ending with a permanent operation
\* failure is the last and the call returns none; in neither case does it
\* raise.
C23_CacheReadDegradation ==
    (op.name = "get" /\ mongo_uri) =>
        /\ Len(op.log) <= 5
        /\ (op.log # <<>> /\ AllIn(Outcomes(op.log), {"auto_reconnect"})) =>
               IF Len(op.log) = 5
               THEN op.status = "returned" /\ ~op.ret.present
               ELSE op.status = "awaiting"
        /\ \A i \in DOMAIN op.log :
               op.log[i].outcome = "operation_failure" =>
                   /\ i = Len(op.log)
                   /\ op.status = "returned"
                   /\ ~op.ret.present

\* A get gave up after five reconnect errors while a document was stored
C23_Witness ==
    /\ op.name = "get"
    /\ op.status = "returned"
    /\ stored.present
    /\ Len(op.log) = 5
    /\ AllIn(Outcomes(op.log), {"auto_reconnect"})
    /\ ~op.ret.present

\* Python's == on payloads: dicts compare by key, lists by position
RECURSIVE Same(_, _)
Same(x, y) ==
    /\ x.t = y.t
    /\ Len(x.items) = Len(y.items)
    /\ \A i \in DOMAIN x.items :
           IF x.t = "dict"
           THEN /\ DictHas(y.items, x.items[i].k)
                /\ Same(x.items[i].v, DictGet(y.items, x.items[i].k))
           ELSE Same(x.items[i].v, y.items[i].v)

\* Whether some dict of the value, at any depth and through lists, has `key`
RECURSIVE HasKeyAnywhere(_, _)
HasKeyAnywhere(x, key) ==
    \E i \in DOMAIN x.items :
        (x.t = "dict" /\ x.items[i].k = key) \/ HasKeyAnywhere(x.items[i].v, key)

\* C24 (key escaping round trip): for every payload handed to Cache.update,
\* with dicts nested in dicts and in lists, escaping gives a form (it does not
\* raise) that has no '$' key at any depth, and unescaping what the store
\* holds gives (it does not raise either) a payload equal to the one written.
C24_KeyEscaping ==
    /\ (op.name = "update" /\ op.status = "raised") => op.log # <<>>
    /\ stored.present => ~HasKeyAnywhere(stored.data, "$")
    /\ (op.name = "get" /\ op.status = "raised") => LastOutcome = "other"
    /\ (GetReturned /\ op.ret.present) => Same(op.ret.data, op.ret.orig)

\* C37 (one read per successful lookup): in a Cache.get every find_one that
\* is not the last one ended with a reconnect-class error: a read the store
\* answered, whether the document is fresh, stale or absent, is the only or
\* the last read of the call.
C37_OneReadPerLookup ==
    op.name = "get" =>
        \A i \in 1..(Len(op.log) - 1) : op.log[i].outcome = "auto_reconnect"

====
